---------------------------- MODULE Spec2Model ----------------------------
(***************************************************************************)
(* mitigationDB: the rule expression evaluator (path resolver, expression  *)
(* evaluator, rule evaluation orchestrator) and the example rule set.      *)
(*                                                                         *)
(* JSON values are tagged records:                                         *)
(*   null            [t |-> "null"]                                        *)
(*   true / false    [t |-> "bool", b |-> TRUE]                            *)
(*   numbers         [t |-> "num", n |-> 3, d |-> 2]   (the rational 3/2,  *)
(*                   in lowest terms, d > 0)                               *)
(*   strings         [t |-> "str", s |-> <<"params", ".", "base_ft">>]     *)
(*                   a string is the sequence of its chunks: "." is the    *)
(*                   dot character, every other chunk is a maximal run of  *)
(*                   characters without a dot                              *)
(*   arrays          [t |-> "arr", a |-> <<v1, ..., vn>>]                  *)
(*   objects         [t |-> "map", k |-> <<key1, ...>>, v |-> <<v1, ...>>] *)
(*                   keys in insertion order, every key a single chunk     *)
(* An expression tree is a JSON value; an operator node is an object with  *)
(* exactly one key.                                                        *)
(***************************************************************************)
EXTENDS Integers, Sequences, FiniteSets, TLC

VARIABLES observation, rules, ret,
          asOfDate, activeRules, formFields, requests, error,
          currentView, userRole, result, loading, calls,
          selectedRule, testResult, editingRule, isCreating,
          formData, saved, stored

evalVars == <<observation, rules, ret>>
\* The state of the observation form: the as-of date, the rules it fetched,
\* the fields generated from them, its getRules calls and the error shown.
formVars == <<asOfDate, activeRules, formFields, requests, error>>
\* The state of the application shell and of the other components: the view
\* and the role, the evaluation result and the loading flag, the API calls in
\* flight besides getRules, the rule tester's selection and result, the rules
\* manager's editing state, the rule editor's form and what it saved, and the
\* rules the rule source stores.
appVars == <<currentView, userRole>>
uiVars == <<currentView, userRole, result, loading, calls,
            selectedRule, testResult, editingRule, isCreating,
            formData, saved, stored>>
vars == <<observation, rules, ret, asOfDate, activeRules, formFields, requests, error,
          currentView, userRole, result, loading, calls,
          selectedRule, testResult, editingRule, isCreating,
          formData, saved, stored>>

(***************************************************************************)
(* Bounds of the model.                                                    *)
(***************************************************************************)
MaxRules == 2

(***************************************************************************)
(* JSON values.                                                            *)
(***************************************************************************)
Null == [t |-> "null"]
Bool(b) == [t |-> "bool", b |-> b]
Str(chunks) == [t |-> "str", s |-> chunks]
S(chunk) == Str(<<chunk>>)
Arr(items) == [t |-> "arr", a |-> items]
Map(keys, vals) == [t |-> "map", k |-> keys, v |-> vals]
Op(key, args) == Map(<<key>>, <<Arr(args)>>)
Var(path) == Map(<<"var">>, <<Str(path)>>)
VarArr(path) == Map(<<"var">>, <<Arr(<<Str(path)>>)>>)

Abs(i) == IF i < 0 THEN -i ELSE i

RECURSIVE Gcd(_, _)
Gcd(a, b) == IF b = 0 THEN a ELSE Gcd(b, a % b)

\* The rational n/d (d # 0) in lowest terms with a positive denominator.
Rat(n, d) ==
  LET g == Gcd(Abs(n), Abs(d))
      sgn == IF d < 0 THEN -1 ELSE 1
  IN [t |-> "num", n |-> sgn * (n \div g), d |-> Abs(d) \div g]
Num(n) == Rat(n, 1)

\* The outcome of a failed evaluation, and the resolver's "absent".
Err(kind) == [t |-> "err", kind |-> kind]
Absent == [t |-> "absent"]
IsErr(x) == x.t = "err"


(***************************************************************************)
(* Path Resolver: resolve(root, path).                                     *)
(***************************************************************************)
\* path.split("."): the segments between the dots, each the chunks it holds.
RECURSIVE SplitFrom(_, _, _, _)
SplitFrom(chunks, i, cur, acc) ==
  IF i > Len(chunks) THEN Append(acc, cur)
  ELSE IF chunks[i] = "." THEN SplitFrom(chunks, i + 1, <<>>, Append(acc, cur))
  ELSE SplitFrom(chunks, i + 1, Append(cur, chunks[i]), acc)
Split(chunks) == SplitFrom(chunks, 1, <<>>, <<>>)

\* A segment parses as a non-negative integer when it is one run of digits.
IntChunks == {"0", "1", "2", "3", "4", "5"}
ChunkToInt(c) ==
  CASE c = "0" -> 0 [] c = "1" -> 1 [] c = "2" -> 2
    [] c = "3" -> 3 [] c = "4" -> 4 [] c = "5" -> 5
ParsesAsInt(seg) == Len(seg) = 1 /\ seg[1] \in IntChunks
SegInt(seg) == ChunkToInt(seg[1])

MapHas(m, key) == \E i \in 1..Len(m.k) : m.k[i] = key
MapGet(m, key) == m.v[CHOOSE i \in 1..Len(m.k) : m.k[i] = key]

\* Mutant: an index beyond the sequence raises instead of yielding absent.
ResolveStepUncheckedIndex(cur, seg) ==
  IF cur.t = "arr" /\ ParsesAsInt(seg)
  THEN IF SegInt(seg) < Len(cur.a) THEN cur.a[SegInt(seg) + 1] ELSE Err("IndexError")
  ELSE IF cur.t = "map"
  THEN IF Len(seg) = 1 /\ MapHas(cur, seg[1]) THEN MapGet(cur, seg[1]) ELSE Absent
  ELSE Absent

\* One segment applied to the current value.
ResolveStep(cur, seg) ==
  IF cur.t = "arr" /\ ParsesAsInt(seg)
  THEN IF SegInt(seg) < Len(cur.a) THEN cur.a[SegInt(seg) + 1] ELSE Absent
  ELSE IF cur.t = "map"
  THEN IF Len(seg) = 1 /\ MapHas(cur, seg[1]) THEN MapGet(cur, seg[1]) ELSE Absent
  ELSE Absent

RECURSIVE ResolveSegs(_, _)
ResolveSegs(cur, segs) ==
  IF segs = <<>> THEN cur
  ELSE ResolveSegs(ResolveStep(cur, Head(segs)), Tail(segs))

Resolve(root, path) == ResolveSegs(root, Split(path))

(***************************************************************************)
(* Expression Evaluator: evaluate(node, observation, params).              *)
(***************************************************************************)
Operators ==
  {"and", "or", "==", "!=", "<", "<=", ">", ">=", "in", "+", "-", "*", "/", "var"}

\* falsy = null, false, 0, "", empty sequence
Truthy(v) ==
  ~ \/ v.t = "null"
    \/ (v.t = "bool" /\ ~v.b)
    \/ (v.t = "num" /\ v.n = 0)
    \/ (v.t = "str" /\ v.s = <<>>)
    \/ (v.t = "arr" /\ v.a = <<>>)

\* The domain's equality: structural, no coercion between kinds of values.
JEq(a, b) == a.t = b.t /\ a = b

\* Ordering needs two numbers; anything else compares false.
NumLess(a, b) == a.t = "num" /\ b.t = "num" /\ a.n * b.d < b.n * a.d
NumLessEq(a, b) == a.t = "num" /\ b.t = "num" /\ a.n * b.d <= b.n * a.d

\* A missing argument takes part as null.
ArgAt(vals, i) == IF i <= Len(vals) THEN vals[i] ELSE Null

Compare(key, a, b) ==
  CASE key = "==" -> JEq(a, b)
    [] key = "!=" -> ~JEq(a, b)
    [] key = "<" -> NumLess(a, b)
    [] key = "<=" -> NumLessEq(a, b)
    [] key = ">" -> NumLess(b, a)
    [] key = ">=" -> NumLessEq(b, a)

\* needle equals some element of the haystack
In(needle, haystack) ==
  haystack.t = "arr" /\ \E i \in 1..Len(haystack.a) : JEq(needle, haystack.a[i])

\* x / y: null for a zero divisor.
Divide(x, y) == IF y.n = 0 THEN Null ELSE Rat(x.n * y.d, x.d * y.n)

ArithStep(key, x, y) ==
  CASE key = "+" -> Rat(x.n * y.d + y.n * x.d, x.d * y.d)
    [] key = "-" -> Rat(x.n * y.d - y.n * x.d, x.d * y.d)
    [] key = "*" -> Rat(x.n * y.n, x.d * y.d)
    [] key = "/" -> Divide(x, y)

RECURSIVE ArithFold(_, _, _, _)
ArithFold(key, acc, vals, i) ==
  IF i > Len(vals) THEN acc
  ELSE IF acc.t # "num" THEN acc
  ELSE ArithFold(key, ArithStep(key, acc, vals[i]), vals, i + 1)

\* Arithmetic requires numeric operands.
Arith(key, vals) ==
  IF vals = <<>> THEN Err("MalformedRule")
  ELSE IF \E i \in 1..Len(vals) : vals[i].t # "num" THEN Err("TypeMismatch")
  ELSE IF Len(vals) = 1 /\ key = "-" THEN Rat(-vals[1].n, vals[1].d)
  ELSE ArithFold(key, vals[1], vals, 2)

\* The path a var node names: a bare string or a one-element array of one.
VarPath(arg) ==
  IF arg.t = "str" THEN arg
  ELSE IF arg.t = "arr" /\ Len(arg.a) = 1 /\ arg.a[1].t = "str" THEN arg.a[1]
  ELSE Err("MalformedRule")

\* A missing location evaluates as null.
AbsentAsNull(v) == IF v.t = "absent" THEN Null ELSE v

\* params.<rest> resolves in the rule's params, any other path in the observation.
EvalVar(path, obs, params) ==
  LET segs == Split(path.s)
  IN IF Head(segs) = <<"params">>
     THEN AbsentAsNull(ResolveSegs(params, Tail(segs)))
     ELSE AbsentAsNull(ResolveSegs(obs, segs))

RECURSIVE Evaluate(_, _, _)
RECURSIVE AndFrom(_, _, _, _)
RECURSIVE OrFrom(_, _, _, _)
RECURSIVE EvalArgs(_, _, _, _, _)

\* Mutant: every argument is evaluated before the first falsy one is looked for.
RECURSIVE FirstFalsyOrLast(_, _)
FirstFalsyOrLast(vals, i) ==
  IF i = Len(vals) \/ ~Truthy(vals[i]) THEN vals[i] ELSE FirstFalsyOrLast(vals, i + 1)
AndFromEager(args, i, obs, params) ==
  LET vals == EvalArgs(args, i, <<>>, obs, params)
  IN IF IsErr(vals) THEN vals ELSE FirstFalsyOrLast(vals.a, 1)

\* and: stops at the first falsy argument, else the last argument's value.
AndFrom(args, i, obs, params) ==
  LET v == Evaluate(args[i], obs, params)
  IN IF IsErr(v) THEN v
     ELSE IF ~Truthy(v) THEN v
     ELSE IF i = Len(args) THEN v
     ELSE AndFrom(args, i + 1, obs, params)

\* or: stops at the first truthy argument, else the last evaluated value.
OrFrom(args, i, obs, params) ==
  LET v == Evaluate(args[i], obs, params)
  IN IF IsErr(v) THEN v
     ELSE IF Truthy(v) THEN v
     ELSE IF i = Len(args) THEN v
     ELSE OrFrom(args, i + 1, obs, params)

\* Every argument evaluated in order: the values, or the first failure.
EvalArgs(args, i, acc, obs, params) ==
  IF i > Len(args) THEN [t |-> "vals", a |-> acc]
  ELSE LET v == Evaluate(args[i], obs, params)
       IN IF IsErr(v) THEN v
          ELSE EvalArgs(args, i + 1, Append(acc, v), obs, params)

ApplyOp(key, vals) ==
  IF key \in {"==", "!=", "<", "<=", ">", ">="}
  THEN Bool(Compare(key, ArgAt(vals, 1), ArgAt(vals, 2)))
  ELSE IF key = "in" THEN Bool(In(ArgAt(vals, 1), ArgAt(vals, 2)))
  ELSE Arith(key, vals)

Evaluate(node, obs, params) ==
  IF node.t # "map" THEN node
  ELSE IF Len(node.k) # 1 THEN Err("MalformedRule")
  ELSE LET key == node.k[1]
           arg == node.v[1]
       IN IF key \notin Operators THEN Err("UnknownOperator")
          ELSE IF key = "var"
          THEN LET path == VarPath(arg)
               IN IF IsErr(path) THEN path ELSE EvalVar(path, obs, params)
          ELSE IF arg.t # "arr" THEN Err("MalformedRule")
          ELSE IF key = "and"
          THEN IF arg.a = <<>> THEN Err("MalformedRule")
               ELSE AndFrom(arg.a, 1, obs, params)
          ELSE IF key = "or"
          THEN IF arg.a = <<>> THEN Err("MalformedRule")
               ELSE OrFrom(arg.a, 1, obs, params)
          ELSE LET vals == EvalArgs(arg.a, 1, <<>>, obs, params)
               IN IF IsErr(vals) THEN vals ELSE ApplyOp(key, vals.a)

(***************************************************************************)
(* Rule Evaluation Orchestrator: evaluateObservation(observation, rules)   *)
(* and testRule(rule, observation).                                        *)
(***************************************************************************)
Vulnerability(rule) ==
  [name |-> rule.name, category |-> rule.category,
   explanation |-> rule.explanation, mitigations |-> rule.mitigations]

Failure(kind) == [ok |-> FALSE, error |-> kind]

\* Mutant: each match is put in front of the earlier ones.
RECURSIVE EvaluateFromNewestFirst(_, _, _, _)
EvaluateFromNewestFirst(obs, rs, i, vulnerabilities) ==
  IF i > Len(rs)
  THEN [ok |-> TRUE, matched |-> Len(vulnerabilities),
        vulnerabilities |-> vulnerabilities]
  ELSE LET v == Evaluate(rs[i].logic, obs, rs[i].params)
       IN IF IsErr(v) THEN Failure(v.kind)
          ELSE EvaluateFromNewestFirst(obs, rs, i + 1,
                 IF Truthy(v) THEN <<Vulnerability(rs[i])>> \o vulnerabilities
                 ELSE vulnerabilities)

\* Mutant: a failing rule is skipped and the rest of the list is evaluated.
RECURSIVE EvaluateFromSkipsFailures(_, _, _, _)
EvaluateFromSkipsFailures(obs, rs, i, vulnerabilities) ==
  IF i > Len(rs)
  THEN [ok |-> TRUE, matched |-> Len(vulnerabilities),
        vulnerabilities |-> vulnerabilities]
  ELSE LET v == Evaluate(rs[i].logic, obs, rs[i].params)
       IN IF IsErr(v) THEN EvaluateFromSkipsFailures(obs, rs, i + 1, vulnerabilities)
          ELSE EvaluateFromSkipsFailures(obs, rs, i + 1,
                 IF Truthy(v) THEN Append(vulnerabilities, Vulnerability(rs[i]))
                 ELSE vulnerabilities)

\* The rules in input order; the first failing rule fails the whole call.
RECURSIVE EvaluateFrom(_, _, _, _)
EvaluateFrom(obs, rs, i, vulnerabilities) ==
  IF i > Len(rs)
  THEN [ok |-> TRUE, matched |-> Len(vulnerabilities),
        vulnerabilities |-> vulnerabilities]
  ELSE LET v == Evaluate(rs[i].logic, obs, rs[i].params)
       IN IF IsErr(v) THEN Failure(v.kind)
          ELSE EvaluateFrom(obs, rs, i + 1,
                 IF Truthy(v) THEN Append(vulnerabilities, Vulnerability(rs[i]))
                 ELSE vulnerabilities)

EvaluateObservation(obs, rs) == EvaluateFrom(obs, rs, 1, <<>>)

\* Mutant: a failing evaluation is reported as "no hit".
TestRuleSwallowsFailure(rule, obs) ==
  LET v == Evaluate(rule.logic, obs, rule.params)
  IN [ok |-> TRUE, hit |-> ~IsErr(v) /\ Truthy(v)]

TestRule(rule, obs) ==
  LET v == Evaluate(rule.logic, obs, rule.params)
  IN IF IsErr(v) THEN Failure(v.kind) ELSE [ok |-> TRUE, hit |-> Truthy(v)]

(***************************************************************************)
(* The example rule set and the example observation.                       *)
(***************************************************************************)
\* Mutant: the vents rule compares with the native boolean false.
EmberLogicNativeFalse ==
  Op("and", <<Op("==", <<Var(<<"attic_vent_has_screens">>), Bool(FALSE)>>)>>)

EmberLogic ==
  Op("and", <<Op("==", <<Var(<<"attic_vent_has_screens">>), S("False")>>)>>)

\* Mutant: the roof rule lists the classes A and B.
RoofLogicWrongClasses ==
  Op("and",
     <<Op("in", <<Var(<<"roof_type">>), Arr(<<S("Class A"), S("Class B")>>)>>),
       Op("in", <<Var(<<"wildfire_risk_category">>),
                  Arr(<<S("B"), S("C"), S("D")>>)>>)>>)

RoofLogic ==
  Op("and",
     <<Op("in", <<Var(<<"roof_type">>), Arr(<<S("Class B"), S("Class C")>>)>>),
       Op("in", <<Var(<<"wildfire_risk_category">>),
                  Arr(<<S("B"), S("C"), S("D")>>)>>)>>)

\* Mutant: the divisors of Tree and Grass are exchanged.
WindowParamsSwappedDivisors ==
  Map(<<"base_ft", "window_mult", "veg_div">>,
      <<Num(30),
        Map(<<"Single", "Double", "Tempered Glass">>, <<Num(3), Num(2), Num(1)>>),
        Map(<<"Tree", "Shrub", "Grass">>, <<Num(3), Num(2), Num(1)>>)>>)

WindowParams ==
  Map(<<"base_ft", "window_mult", "veg_div">>,
      <<Num(30),
        Map(<<"Single", "Double", "Tempered Glass">>, <<Num(3), Num(2), Num(1)>>),
        Map(<<"Tree", "Shrub", "Grass">>, <<Num(1), Num(2), Num(3)>>)>>)

\* Mutant: base_ft is named without its params prefix.
WindowLogicMissingParamsPrefix ==
  Op("<",
     <<VarArr(<<"vegetation", ".", "0", ".", "distance_to_window">>),
       Op("/",
          <<Op("*",
               <<Var(<<"base_ft">>),
                 Op("+",
                    <<Op("*", <<Var(<<"params", ".", "window_mult", ".", "Double">>),
                                Num(1)>>),
                      Num(0)>>)>>),
            Var(<<"params", ".", "veg_div", ".", "Tree">>)>>)>>)

\* Mutant: the division by the vegetation divisor comes before the product.
WindowLogicDividesFirst ==
  Op("<",
     <<VarArr(<<"vegetation", ".", "0", ".", "distance_to_window">>),
       Op("*",
          <<Op("/", <<Var(<<"params", ".", "base_ft">>),
                      Var(<<"params", ".", "veg_div", ".", "Tree">>)>>),
            Op("+",
               <<Op("*", <<Var(<<"params", ".", "window_mult", ".", "Double">>),
                           Num(1)>>),
                 Num(0)>>)>>)>>)

WindowLogic ==
  Op("<",
     <<VarArr(<<"vegetation", ".", "0", ".", "distance_to_window">>),
       Op("/",
          <<Op("*",
               <<Var(<<"params", ".", "base_ft">>),
                 Op("+",
                    <<Op("*", <<Var(<<"params", ".", "window_mult", ".", "Double">>),
                                Num(1)>>),
                      Num(0)>>)>>),
            Var(<<"params", ".", "veg_div", ".", "Tree">>)>>)>>)

EmberRule ==
  [name |-> "Ember-vulnerable vents", category |-> "vents",
   logic |-> EmberLogic, params |-> Map(<<>>, <<>>),
   explanation |-> "Attic vents lack ember-resistant screens.",
   mitigations |->
     [full |-> <<"Install 1/8-inch metal mesh or ember-rated vent covers">>,
      bridge |-> <<"Temporarily cover vents with fire-resistant fabric during Red-Flag periods">>]]

RoofRule ==
  [name |-> "Non-Class-A roof in risk zone", category |-> "roof",
   logic |-> RoofLogic, params |-> Map(<<>>, <<>>),
   explanation |-> "Roof covering can ignite under current wildfire risk category.",
   mitigations |->
     [full |-> <<"Replace roof covering with Class A assembly">>,
      bridge |-> <<"Apply Class-A rated fire-resistant roof coating",
                   "Institute quarterly removal of combustible roof debris">>]]

WindowRule ==
  [name |-> "Window heat exposure", category |-> "windows",
   logic |-> WindowLogic, params |-> WindowParams,
   explanation |-> "Window is vulnerable to vegetation heat-flux at current distance.",
   mitigations |->
     [full |-> <<"Replace windows with tempered glass",
                 "Remove vegetation within safe distance">>,
      bridge |-> <<"Apply heat-resistant window film (-20 % distance)",
                   "Prune / treat nearby vegetation with flame retardant">>]]

ExampleRules == <<EmberRule, RoofRule, WindowRule>>

VegetationItem(type, distance) ==
  Map(<<"Type", "distance_to_window">>, <<S(type), Num(distance)>>)

ExampleObservation ==
  Map(<<"attic_vent_has_screens", "roof_type", "wildfire_risk_category",
        "Window Type", "vegetation">>,
      <<S("False"), S("Class B"), S("C"), S("Double"),
        Arr(<<VegetationItem("Tree", 40)>>)>>)

(***************************************************************************)
(* Bounded inputs: observations, rules, paths and expression trees.        *)
(***************************************************************************)
\* The object of the given keys, a key whose value is Absent left out.
RECURSIVE MapWithout(_, _, _, _, _)
MapWithout(keys, vals, i, ks, vs) ==
  IF i > Len(keys) THEN Map(ks, vs)
  ELSE IF vals[i].t = "absent" THEN MapWithout(keys, vals, i + 1, ks, vs)
  ELSE MapWithout(keys, vals, i + 1, Append(ks, keys[i]), Append(vs, vals[i]))

AtticValues == {Absent, Null, Bool(FALSE), S("True"), S("False")}
RoofValues == {Absent, S("Class B"), S("Class C")}
WildfireValues == {S("A"), S("C")}
VegetationValues ==
  {Absent, Arr(<<>>), Arr(<<VegetationItem("Tree", 40)>>),
   Arr(<<VegetationItem("Tree", 100), VegetationItem("Shrub", 40)>>)}

ObsSet ==
  {MapWithout(<<"attic_vent_has_screens", "roof_type", "wildfire_risk_category",
                "Window Type", "vegetation">>,
              <<a, r, w, S("Double"), v>>, 1, <<>>, <<>>) :
     a \in AtticValues, r \in RoofValues, w \in WildfireValues,
     v \in VegetationValues}

DistancePath == <<"vegetation", ".", "0", ".", "distance_to_window">>

\* A rule whose logic names an operator the language does not have.
UnknownOperatorRule ==
  [name |-> "Unknown operator", category |-> "vents",
   logic |-> Op("xor", <<Var(<<"attic_vent_has_screens">>), S("False")>>),
   params |-> Map(<<>>, <<>>), explanation |-> "",
   mitigations |-> [full |-> <<>>, bridge |-> <<>>]]

\* A rule whose logic is an object of two keys.
TwoKeyRule ==
  [name |-> "Two keys", category |-> "roof",
   logic |-> Map(<<"and", "or">>, <<Arr(<<Bool(TRUE)>>), Arr(<<Bool(TRUE)>>)>>),
   params |-> Map(<<>>, <<>>), explanation |-> "",
   mitigations |-> [full |-> <<>>, bridge |-> <<>>]]

\* A rule that does arithmetic on a value read from the observation.
BufferRule ==
  [name |-> "Vegetation inside buffer", category |-> "windows",
   logic |-> Op("<", <<Op("+", <<Var(DistancePath), Num(10)>>),
                       Var(<<"params", ".", "buffer_ft">>)>>),
   params |-> Map(<<"buffer_ft">>, <<Num(60)>>), explanation |-> "",
   mitigations |-> [full |-> <<>>, bridge |-> <<>>]]

\* A rule whose logic is a bare var: its value, not a boolean, decides the match.
VegetationRule ==
  [name |-> "Vegetation present", category |-> "windows",
   logic |-> Var(<<"vegetation">>),
   params |-> Map(<<>>, <<>>), explanation |-> "",
   mitigations |-> [full |-> <<>>, bridge |-> <<>>]]

\* The window rule with a divisor table whose Tree entry is 0.
ZeroDivisorRule ==
  [WindowRule EXCEPT
     !.name = "Window heat exposure (zero divisor)",
     !.params = Map(<<"base_ft", "window_mult", "veg_div">>,
                    <<Num(30), Map(<<"Double">>, <<Num(2)>>),
                      Map(<<"Tree">>, <<Num(0)>>)>>)]

RulePool ==
  {EmberRule, RoofRule, WindowRule, UnknownOperatorRule, TwoKeyRule, BufferRule,
   VegetationRule}

\* Every list of at most MaxRules rules of the pool, and the example rule set.
RuleLists == UNION {[1..n -> RulePool] : n \in 0..MaxRules} \cup {ExampleRules}

NoCall == [op |-> "none"]

\* No observation form is mounted.
NoForm ==
  /\ asOfDate = ""
  /\ activeRules = <<>>
  /\ formFields = <<>>
  /\ requests = <<>>
  /\ error = ""

\* The application shell and the other components as constructed, nothing
\* in flight.
NoUi ==
  /\ currentView = "evaluation"
  /\ userRole = "underwriter"
  /\ result = Null
  /\ loading = FALSE
  /\ calls = <<>>
  /\ selectedRule = Null
  /\ testResult = Null
  /\ editingRule = Null
  /\ isCreating = FALSE
  /\ formData = Null
  /\ saved = <<>>
  /\ stored = <<>>

(***************************************************************************)
(* The orchestrator's calls: one observation, one rule list, one call.     *)
(***************************************************************************)
InitOrchestrator ==
  /\ observation \in ObsSet
  /\ rules \in RuleLists
  /\ ret = NoCall
  /\ NoForm
  /\ NoUi

CallEvaluateObservation ==
  /\ ret = NoCall
  /\ ret' = [op |-> "evaluateObservation",
             out |-> EvaluateObservation(observation, rules)]
  /\ UNCHANGED <<observation, rules>>
  /\ UNCHANGED formVars
  /\ UNCHANGED uiVars

CallTestRule(i) ==
  /\ ret = NoCall
  /\ ret' = [op |-> "testRule", i |-> i, out |-> TestRule(rules[i], observation)]
  /\ UNCHANGED <<observation, rules>>
  /\ UNCHANGED formVars
  /\ UNCHANGED uiVars

NextOrchestrator ==
  \/ CallEvaluateObservation
  \/ \E i \in 1..Len(rules) : CallTestRule(i)

SpecOrchestrator == InitOrchestrator /\ [][NextOrchestrator]_vars

(***************************************************************************)
(* The resolver's and the evaluator's calls: one observation, one rule     *)
(* (whose params the evaluation reads), a path or an expression tree.      *)
(***************************************************************************)
PathPool ==
  {DistancePath,
   <<"vegetation", ".", "5", ".", "distance_to_window">>,
   <<"vegetation", ".", "1", ".", "Type">>,
   <<"vegetation", ".", "1">>,
   <<"vegetation", ".", "0">>,
   <<"vegetation", ".", "Type">>,
   <<"vegetation", ".", "0", ".", "missing">>,
   <<"roof_type">>,
   <<"roof_type", ".", "0">>,
   <<"roof_type", ".", "length">>,
   <<"Window Type">>,
   <<"missing", ".", "0">>,
   <<"window_mult", ".", "Double">>,
   <<"veg_div", ".", "0">>,
   <<>>}

FalsyLiterals == {Bool(FALSE), Null, Num(0), Str(<<>>), Arr(<<>>)}
TruthyLiterals == {Bool(TRUE), Num(1), S("x")}
OrderingOps == {"<", "<=", ">", ">="}

TenByZero == Op("/", <<Num(10), Num(0)>>)

ShortCircuitNodes(x) ==
  {Op("and", <<f, x>>) : f \in FalsyLiterals \cup {Bool(TRUE)}}
    \cup {Op("or", <<f, x>>) : f \in TruthyLiterals \cup {Bool(FALSE)}}
    \cup {Op("and", <<Bool(FALSE), Op("/", <<Num(1), Num(0)>>)>>)}

DivisionNodes ==
  {Op("/", <<Num(10), d>>) :
     d \in {Num(0), Num(4), Var(<<"params", ".", "veg_div", ".", "Tree">>)}}

OrderingNodes ==
  {Op(op, <<a, b>>) :
     op \in OrderingOps,
     a \in {TenByZero, Null, S("x"), Num(3), Var(DistancePath)},
     b \in {Num(5), Null}}

InNodes ==
  {Op("in", <<Var(<<f>>), h>>) :
     f \in {"roof_type", "missing"},
     h \in {Arr(<<S("Class A"), S("Class B")>>), Arr(<<Null, S("Class A")>>)}}

EqualityNodes ==
  {Op(op, <<Var(<<"attic_vent_has_screens">>), x>>) :
     op \in {"==", "!="}, x \in {S("False"), Bool(FALSE)}}

NodePool(rule) ==
  {rule.logic} \cup ShortCircuitNodes(rule.logic) \cup DivisionNodes
    \cup OrderingNodes \cup InNodes \cup EqualityNodes

EvaluatorRulePool == RulePool \cup {ZeroDivisorRule}

InitEvaluator ==
  /\ observation \in ObsSet
  /\ rules \in {<<r>> : r \in EvaluatorRulePool}
  /\ ret = NoCall
  /\ NoForm
  /\ NoUi

CallResolve(root, path) ==
  /\ ret = NoCall
  /\ ret' = [op |-> "resolve", root |-> root, path |-> path,
             out |-> Resolve(IF root = "params" THEN rules[1].params
                             ELSE observation, path)]
  /\ UNCHANGED <<observation, rules>>
  /\ UNCHANGED formVars
  /\ UNCHANGED uiVars

CallEvaluate(node) ==
  /\ ret = NoCall
  /\ ret' = [op |-> "evaluate", node |-> node,
             out |-> Evaluate(node, observation, rules[1].params)]
  /\ UNCHANGED <<observation, rules>>
  /\ UNCHANGED formVars
  /\ UNCHANGED uiVars

NextEvaluator ==
  \/ \E root \in {"observation", "params"}, path \in PathPool :
       CallResolve(root, path)
  \/ \E node \in NodePool(rules[1]) : CallEvaluate(node)

SpecEvaluator == InitEvaluator /\ [][NextEvaluator]_vars

(***************************************************************************)
(* Claims about the orchestrator (SpecOrchestrator).                       *)
(***************************************************************************)
Names(vs) == [i \in 1..Len(vs) |-> vs[i].name]

TheFalsyValues == {Null, Bool(FALSE), Num(0), Str(<<>>), Arr(<<>>)}

\* The value rule number i of the list evaluates to on the observation.
RuleValue(i) == Evaluate(rules[i].logic, observation, rules[i].params)
RuleFails(i) == RuleValue(i).t = "err"
RuleMatches(i) == ~RuleFails(i) /\ RuleValue(i) \notin TheFalsyValues

\* The positions of the matching rules, in increasing order.
RECURSIVE MatchingFrom(_)
MatchingFrom(i) ==
  IF i > Len(rules) THEN <<>>
  ELSE IF RuleMatches(i) THEN <<i>> \o MatchingFrom(i + 1)
  ELSE MatchingFrom(i + 1)

ExampleCall ==
  /\ ret.op = "evaluateObservation"
  /\ observation = ExampleObservation
  /\ rules = ExampleRules

C2_OneEntryPerMatchInOrder ==
  (ret.op = "evaluateObservation" /\ \A i \in 1..Len(rules) : ~RuleFails(i)) =>
    LET m == MatchingFrom(1)
    IN /\ ret.out.ok
       /\ ret.out.vulnerabilities =
            [j \in 1..Len(m) |-> Vulnerability(rules[m[j]])]
       /\ ret.out.matched = Len(ret.out.vulnerabilities)

C2_Witness ==
  /\ ret.op = "evaluateObservation"
  /\ Len(rules) = 2
  /\ rules[1] = VegetationRule /\ rules[2] = EmberRule
  /\ ret.out.ok
  /\ ret.out.matched = 2
  /\ Names(ret.out.vulnerabilities) = <<VegetationRule.name, EmberRule.name>>

\* C3: if any one rule of the list fails, evaluateObservation fails as a
\* whole and returns no partial result, wherever the failing rule stands and
\* however many other rules matched.
C3_FailureIsWhole ==
  (ret.op = "evaluateObservation" /\ \E i \in 1..Len(rules) : RuleFails(i)) =>
    /\ ~ret.out.ok
    /\ DOMAIN ret.out = {"ok", "error"}
    /\ \E i \in 1..Len(rules) : RuleFails(i) /\ ret.out.error = RuleValue(i).kind

C3_Witness ==
  /\ ret.op = "evaluateObservation"
  /\ Len(rules) = 2
  /\ RuleMatches(1)
  /\ RuleFails(2)
  /\ ~ret.out.ok

\* C10: testRule(r, o).hit is true exactly when evaluateObservation(o, [r])
\* returns matched = 1, and testRule fails exactly when that call fails.
C10_TestRuleIsSingleRuleEvaluation ==
  ret.op = "testRule" =>
    LET e == EvaluateObservation(observation, <<rules[ret.i]>>)
    IN /\ ret.out.ok <=> e.ok
       /\ ret.out.ok => (ret.out.hit <=> e.matched = 1)

C10_Witness ==
  /\ ret.op = "testRule"
  /\ rules[ret.i] = VegetationRule
  /\ ret.out.ok /\ ret.out.hit
  /\ EvaluateObservation(observation, <<rules[ret.i]>>).matched = 1

\* A logic tree of the rule language: literals, var nodes with a path, and
\* one-key objects naming a recognized operator over an argument list.
RECURSIVE WellFormed(_)
WellFormed(node) ==
  IF node.t # "map" THEN TRUE
  ELSE /\ Len(node.k) = 1
       /\ node.k[1] \in Operators
       /\ IF node.k[1] = "var" THEN VarPath(node.v[1]).t = "str"
          ELSE /\ node.v[1].t = "arr"
               /\ node.k[1] \in {"and", "or", "+", "-", "*", "/"} => node.v[1].a # <<>>
               /\ \A i \in 1..Len(node.v[1].a) : WellFormed(node.v[1].a[i])

RECURSIVE HasArithmetic(_)
HasArithmetic(node) ==
  /\ node.t = "map"
  /\ Len(node.k) = 1
  /\ node.k[1] # "var"
  /\ node.v[1].t = "arr"
  /\ \/ node.k[1] \in {"+", "-", "*", "/"}
     \/ \E i \in 1..Len(node.v[1].a) : HasArithmetic(node.v[1].a[i])

TestedRule == rules[ret.i]

\* C4 as stated: a rule whose logic uses only recognized operators never
\* fails because the observation omits a field it references.
C4_Original ==
  (ret.op = "testRule" /\ WellFormed(TestedRule.logic)) => ret.out.ok

\* C4 amended: for a well-formed rule over recognized operators an unresolved
\* path takes part as null, and the evaluation fails only when an arithmetic
\* operator (+, -, *, /) receives a non-number, with TypeMismatch; a rule
\* without arithmetic never fails, and the three example rules (the window
\* rule's arithmetic reads only its params) yield a match or a non-match on
\* every observation.
C4_OmittedFieldFailsOnlyArithmetic ==
  (ret.op = "testRule" /\ WellFormed(TestedRule.logic)) =>
    /\ ~ret.out.ok =>
         ret.out.error = "TypeMismatch" /\ HasArithmetic(TestedRule.logic)
    /\ TestedRule \in {EmberRule, RoofRule, WindowRule} =>
         ret.out.ok /\ ret.out.hit \in BOOLEAN

\* The window rule tested on an observation without vegetation.
C4_Witness ==
  /\ ret.op = "testRule"
  /\ TestedRule = WindowRule
  /\ ~MapHas(observation, "vegetation")
  /\ ret.out.ok /\ ~ret.out.hit

(***************************************************************************)
(* Claims about the path resolver and the expression evaluator             *)
(* (SpecEvaluator).                                                        *)
(***************************************************************************)
IsOp(node, key) == node.t = "map" /\ node.k = <<key>> /\ node.v[1].t = "arr"
Args(node) == node.v[1].a
\* {"var": f} for a top-level field f
IsFieldVar(node) ==
  node.t = "map" /\ node.k = <<"var">> /\ node.v[1].t = "str" /\ Len(node.v[1].s) = 1
EvaluatedOp(key) == ret.op = "evaluate" /\ IsOp(ret.node, key)

\* The value of an argument of the evaluated node, on its own.
ArgValue(i) == Evaluate(Args(ret.node)[i], observation, rules[1].params)

\* The value of a top-level field of the observation, null when it is omitted.
Field(f) == IF MapHas(observation, f) THEN MapGet(observation, f) ELSE Null

\* C5: `and` stops at its first falsy argument and `or` at its first truthy
\* argument, and no later argument is evaluated: {"and": [false, X]} yields
\* a falsy value and {"or": [true, X]} a truthy value even when X fails.
C5_ShortCircuit ==
  /\ (EvaluatedOp("and") /\ Args(ret.node)[1] \in TheFalsyValues) =>
       ret.out = Args(ret.node)[1]
  /\ (EvaluatedOp("or") /\ Args(ret.node)[1] \in TruthyLiterals) =>
       ret.out = Args(ret.node)[1]

C5_Witness ==
  /\ EvaluatedOp("and")
  /\ Len(Args(ret.node)) = 2
  /\ Args(ret.node)[1] = Bool(FALSE)
  /\ IsErr(ArgValue(2))
  /\ ret.out = Bool(FALSE)

\* C6: `/` with a zero divisor evaluates to null without failing, and an
\* ordering comparison with a null or otherwise non-numeric operand evaluates
\* to false without failing; {"<": [{"/": [10, 0]}, 5]} evaluates to false,
\* and so does the window rule's logic when its divisor is 0.
C6_DivisionAndOrderingFailSoft ==
  /\ (EvaluatedOp("/") /\ Len(Args(ret.node)) = 2 /\ ArgValue(1).t = "num"
        /\ ArgValue(2) = Num(0)) =>
       ret.out = Null
  /\ \A op \in OrderingOps :
       (EvaluatedOp(op) /\ Len(Args(ret.node)) = 2
          /\ ~IsErr(ArgValue(1)) /\ ~IsErr(ArgValue(2))
          /\ (ArgValue(1).t # "num" \/ ArgValue(2).t # "num")) =>
         ret.out = Bool(FALSE)
  /\ (ret.op = "evaluate" /\ ret.node = Op("<", <<TenByZero, Num(5)>>)) =>
       ret.out = Bool(FALSE)
  /\ (ret.op = "evaluate" /\ rules[1] = ZeroDivisorRule
        /\ ret.node = ZeroDivisorRule.logic) =>
       ret.out = Bool(FALSE)

C6_Witness ==
  /\ ret.op = "evaluate"
  /\ ret.node = Op("<", <<TenByZero, Num(5)>>)
  /\ ArgValue(1) = Null
  /\ ret.out = Bool(FALSE)

\* The chunks of a path before its last dot (none when it has no dot).
RECURSIVE LastDot(_, _)
LastDot(path, i) ==
  IF i = 0 THEN 0 ELSE IF path[i] = "." THEN i ELSE LastDot(path, i - 1)
ParentPath(path) == SubSeq(path, 1, LastDot(path, Len(path)) - 1)
LastSegment(path) == SubSeq(path, LastDot(path, Len(path)) + 1, Len(path))

ResolveRoot == IF ret.root = "params" THEN rules[1].params ELSE observation

\* C7: resolve(root, path) never fails: an integer segment indexes a
\* sequence and any other segment looks up a mapping key, and an
\* out-of-range index, a missing key or a segment applied to a scalar all
\* yield absent; vegetation.0.distance_to_window resolves to 40 on the
\* example observation and vegetation.5.distance_to_window to absent.
C7_ResolveNeverFails ==
  ret.op = "resolve" =>
    LET seg == LastSegment(ret.path)
        parent == IF LastDot(ret.path, Len(ret.path)) = 0 THEN ResolveRoot
                  ELSE Resolve(ResolveRoot, ParentPath(ret.path))
    IN /\ ret.out.t \in {"absent", "null", "bool", "num", "str", "arr", "map"}
       /\ (parent.t = "arr" /\ Len(seg) = 1 /\ seg[1] \in {"0", "1", "5"}) =>
            LET idx == CASE seg[1] = "0" -> 0 [] seg[1] = "1" -> 1 [] seg[1] = "5" -> 5
            IN ret.out = IF idx < Len(parent.a) THEN parent.a[idx + 1] ELSE Absent
       /\ (parent.t = "arr" /\ ~(Len(seg) = 1 /\ seg[1] \in {"0", "1", "5"})) =>
            ret.out = Absent
       /\ parent.t = "map" =>
            ret.out = IF \E i \in 1..Len(parent.k) : <<parent.k[i]>> = seg
                      THEN parent.v[CHOOSE i \in 1..Len(parent.k) : <<parent.k[i]>> = seg]
                      ELSE Absent
       /\ parent.t \notin {"arr", "map"} => ret.out = Absent
       /\ (ret.root = "observation" /\ observation = ExampleObservation
             /\ ret.path = DistancePath) =>
            ret.out = Num(40)
       /\ (ret.root = "observation"
             /\ ret.path = <<"vegetation", ".", "5", ".", "distance_to_window">>) =>
            ret.out = Absent

\* An index beyond the end of the vegetation sequence.
C7_Witness ==
  /\ ret.op = "resolve"
  /\ ret.root = "observation"
  /\ ret.path = <<"vegetation", ".", "1">>
  /\ MapHas(observation, "vegetation")
  /\ Len(MapGet(observation, "vegetation").a) = 1
  /\ ret.out = Absent

\* C8: `in` returns true exactly when the evaluated needle equals some
\* element of the evaluated haystack: with haystack ["Class A", "Class B"],
\* roof_type "Class B" gives true and "Class C" false, an absent needle
\* gives false for a haystack without null; the roof rule matches exactly
\* the roof types Class B and Class C in the risk categories B, C and D.
C8_InIsMembership ==
  /\ (EvaluatedOp("in") /\ IsFieldVar(Args(ret.node)[1])) =>
       LET f == Args(ret.node)[1].v[1].s[1]
           hay == Args(ret.node)[2].a
       IN ret.out = Bool(\E i \in 1..Len(hay) : hay[i] = Field(f))
  /\ (ret.op = "evaluate"
        /\ ret.node = Op("in", <<Var(<<"roof_type">>),
                                 Arr(<<S("Class A"), S("Class B")>>)>>)) =>
       /\ Field("roof_type") = S("Class B") => ret.out = Bool(TRUE)
       /\ Field("roof_type") = S("Class C") => ret.out = Bool(FALSE)
       /\ Field("roof_type") = Null => ret.out = Bool(FALSE)
  /\ (ret.op = "evaluate" /\ rules[1] = RoofRule /\ ret.node = RoofRule.logic) =>
       ret.out = Bool(/\ Field("roof_type") \in {S("Class B"), S("Class C")}
                      /\ Field("wildfire_risk_category") \in {S("B"), S("C"), S("D")})

C8_Witness ==
  /\ ret.op = "evaluate"
  /\ ret.node = Op("in", <<Var(<<"roof_type">>), Arr(<<S("Class A"), S("Class B")>>)>>)
  /\ Field("roof_type") = S("Class B")
  /\ ret.out = Bool(TRUE)

\* C9: equality never coerces between the strings "True"/"False" and native
\* booleans: {"==": [{"var": f}, "False"]} is true exactly when f resolves
\* to the string "False", and false when f is native false, null or absent;
\* the vents rule matches exactly the string "False".
C9_EqualityDoesNotCoerce ==
  LET f == Field("attic_vent_has_screens")
      isString == f.t = "str" /\ f.s = <<"False">>
      isNative == f.t = "bool" /\ f.b = FALSE
  IN /\ (ret.op = "evaluate"
           /\ ret.node = Op("==", <<Var(<<"attic_vent_has_screens">>), S("False")>>)) =>
          ret.out = Bool(isString)
     /\ (ret.op = "evaluate"
           /\ ret.node = Op("==", <<Var(<<"attic_vent_has_screens">>), Bool(FALSE)>>)) =>
          ret.out = Bool(isNative)
     /\ (ret.op = "evaluate" /\ rules[1] = EmberRule /\ ret.node = EmberRule.logic) =>
          ret.out = Bool(isString)

C9_Witness ==
  /\ ret.op = "evaluate"
  /\ ret.node = Op("==", <<Var(<<"attic_vent_has_screens">>), S("False")>>)
  /\ Field("attic_vent_has_screens") = Bool(FALSE)
  /\ ret.out = Bool(FALSE)


(***************************************************************************)
(* Strings as the form code reads them: text and its String methods.       *)
(***************************************************************************)
\* The text of a string value: its chunks joined.
RECURSIVE Text(_)
Text(chunks) == IF chunks = <<>> THEN "" ELSE Head(chunks) \o Text(Tail(chunks))

\* The string value of a text.
FromText(text) == IF text = "" THEN Str(<<>>) ELSE S(text)

\* s.includes(sub)
Includes(s, sub) ==
  \/ sub = ""
  \/ \E i \in 1..(Len(s) - Len(sub) + 1) : SubSeq(s, i, i + Len(sub) - 1) = sub

\* s.endsWith(sub)
EndsWith(s, sub) ==
  Len(s) >= Len(sub) /\ (sub = "" \/ SubSeq(s, Len(s) - Len(sub) + 1, Len(s)) = sub)

\* s.startsWith(prefix)
StartsWith(s, prefix) ==
  Len(s) >= Len(prefix) /\ (prefix = "" \/ SubSeq(s, 1, Len(prefix)) = prefix)

\* s.split('.')[0]
RECURSIVE FirstSegmentFrom(_, _)
FirstSegmentFrom(s, i) ==
  IF i > Len(s) THEN s
  ELSE IF SubSeq(s, i, i) = "." THEN (IF i = 1 THEN "" ELSE SubSeq(s, 1, i - 1))
  ELSE FirstSegmentFrom(s, i + 1)
FirstSegment(s) == FirstSegmentFrom(s, 1)

LowerLetters == "abcdefghijklmnopqrstuvwxyz"
UpperLetters == "ABCDEFGHIJKLMNOPQRSTUVWXYZ"
Digits == "0123456789"
IsIn(c, letters) == \E i \in 1..Len(letters) : SubSeq(letters, i, i) = c
PlaceIn(c, letters) == CHOOSE i \in 1..Len(letters) : SubSeq(letters, i, i) = c
LowerChar(c) ==
  IF IsIn(c, UpperLetters)
  THEN LET i == PlaceIn(c, UpperLetters) IN SubSeq(LowerLetters, i, i) ELSE c
UpperChar(c) ==
  IF IsIn(c, LowerLetters)
  THEN LET i == PlaceIn(c, LowerLetters) IN SubSeq(UpperLetters, i, i) ELSE c

\* s.toLowerCase()
RECURSIVE ToLowerCase(_)
ToLowerCase(s) ==
  IF s = "" THEN ""
  ELSE LowerChar(SubSeq(s, 1, 1))
         \o (IF Len(s) = 1 THEN "" ELSE ToLowerCase(SubSeq(s, 2, Len(s))))

\* \w without the underscore, which the label replaces first.
IsWordChar(c) == IsIn(c, LowerLetters) \/ IsIn(c, UpperLetters) \/ IsIn(c, Digits)

\* fieldName.replace(/_/g, ' ').replace(/\b\w/g, (l) => l.toUpperCase())
RECURSIVE LabelFrom(_, _)
LabelFrom(s, i) ==
  IF i > Len(s) THEN ""
  ELSE LET c == SubSeq(s, i, i)
           startsWord == i = 1 \/ ~IsWordChar(SubSeq(s, i - 1, i - 1))
           out == IF c = "_" THEN " "
                  ELSE IF IsWordChar(c) /\ startsWord THEN UpperChar(c) ELSE c
       IN out \o LabelFrom(s, i + 1)
Label(fieldName) == LabelFrom(fieldName, 1)

\* What a JavaScript condition takes as true.
JsTruthy(v) ==
  ~ \/ v.t \in {"null", "absent", "undefined"}
    \/ (v.t = "bool" /\ ~v.b)
    \/ (v.t = "num" /\ v.n = 0)
    \/ (v.t = "str" /\ Text(v.s) = "")

Undefined == [t |-> "undefined"]

\* obj.key of an object; undefined when the key is missing.
Prop(obj, key) ==
  IF obj.t = "map" /\ MapHas(obj, key) THEN MapGet(obj, key) ELSE Undefined

\* Object.keys of a mapping.
ObjectKeys(v) == IF v.t = "map" THEN v.k ELSE <<>>

\* Object.values(obj) of an object or an array.
ObjectValues(obj) == IF obj.t = "map" THEN obj.v ELSE obj.a

IsObject(v) == v.t \in {"map", "arr"}

\* Set.add: insertion order, each value once.
SetAdd(set, x) ==
  IF \E i \in 1..Len(set) : set[i] = x THEN set ELSE Append(set, x)

RECURSIVE SetAddAll(_, _)
SetAddAll(set, xs) ==
  IF xs = <<>> THEN set ELSE SetAddAll(SetAdd(set, Head(xs)), Tail(xs))

\* JSON.stringify(logic).includes(sub), for a sub of letters and underscores:
\* such a text lies inside one key or one string of the tree.
RECURSIVE StringifyIncludes(_, _)
StringifyIncludes(obj, sub) ==
  CASE obj.t = "str" -> Includes(Text(obj.s), sub)
    [] obj.t = "arr" ->
         \E i \in 1..Len(obj.a) : StringifyIncludes(obj.a[i], sub)
    [] obj.t = "map" ->
         \E i \in 1..Len(obj.k) :
           Includes(obj.k[i], sub) \/ StringifyIncludes(obj.v[i], sub)
    [] OTHER -> FALSE

(***************************************************************************)
(* Form schema generation: generateFormFields(rules) and its helpers.      *)
(* A var array holds path strings; option arrays hold strings and numbers. *)
(***************************************************************************)
\* The string of an option or key as the option set holds it.
Option(v) == IF v.t = "str" THEN FromText(Text(v.s)) ELSE v

RECURSIVE Options(_)
Options(vs) == IF vs = <<>> THEN <<>> ELSE <<Option(Head(vs))>> \o Options(Tail(vs))

RECURSIVE KeyOptions(_)
KeyOptions(keys) ==
  IF keys = <<>> THEN <<>> ELSE <<FromText(Head(keys))>> \o KeyOptions(Tail(keys))

\* The fields one var node adds: the whole string of the bare form, the
\* first segment of the array form.
VarFields(v) ==
  IF ~JsTruthy(v) THEN <<>>
  ELSE IF v.t = "str"
  THEN IF ~StartsWith(Text(v.s), "params.") THEN <<Text(v.s)>> ELSE <<>>
  ELSE IF v.t = "arr"
  THEN IF v.a = <<>> THEN <<>>
       ELSE LET fieldName == FirstSegment(Text(v.a[1].s))
            IN IF fieldName # "" /\ ~StartsWith(fieldName, "params")
               THEN <<fieldName>>
               ELSE <<>>
  ELSE <<>>

\* traverse(obj): what the walk adds to the set, in the order it adds it:
\* the node's own var first, then every value of the node in turn.
RECURSIVE TraverseFields(_)
RECURSIVE TraverseFieldsAll(_)
TraverseFields(obj) ==
  IF ~IsObject(obj) THEN <<>>
  ELSE VarFields(Prop(obj, "var")) \o TraverseFieldsAll(ObjectValues(obj))
TraverseFieldsAll(values) ==
  IF values = <<>> THEN <<>>
  ELSE TraverseFields(Head(values)) \o TraverseFieldsAll(Tail(values))

ExtractFieldsFromLogic(logic) == SetAddAll(<<>>, TraverseFields(logic))

RECURSIVE ImpliedFieldsFrom(_, _)
ImpliedFieldsFrom(rs, i) ==
  IF i > Len(rs) THEN <<>>
  ELSE LET rule == rs[i]
           window == IF JsTruthy(Prop(rule.params, "window_mult"))
                        /\ StringifyIncludes(rule.logic, "window_mult")
                     THEN <<"Window Type">> ELSE <<>>
           veg == IF JsTruthy(Prop(rule.params, "veg_div"))
                     /\ StringifyIncludes(rule.logic, "veg_div")
                  THEN <<"vegetation">> ELSE <<>>
       IN window \o veg \o ImpliedFieldsFrom(rs, i + 1)

ExtractParameterImpliedFields(rs) == SetAddAll(<<>>, ImpliedFieldsFrom(rs, 1))

StaticDefaults ==
  Map(<<"attic_vent_has_screens", "roof_type", "wildfire_risk_category">>,
      <<S("True"), S("Class A"), S("A")>>)

\* The keys of params[key] of every rule that has it, rule by rule.
RECURSIVE ParamKeysFrom(_, _, _)
ParamKeysFrom(rs, key, i) ==
  IF i > Len(rs) THEN <<>>
  ELSE (IF JsTruthy(Prop(rs[i].params, key))
        THEN ObjectKeys(Prop(rs[i].params, key)) ELSE <<>>)
         \o ParamKeysFrom(rs, key, i + 1)

RECURSIVE FirstWindowType(_, _)
FirstWindowType(rs, i) ==
  IF i > Len(rs) THEN "Double"
  ELSE IF JsTruthy(Prop(rs[i].params, "window_mult"))
  THEN LET keys == ObjectKeys(Prop(rs[i].params, "window_mult"))
       IN IF keys = <<>> \/ keys[1] = "" THEN "Double" ELSE keys[1]
  ELSE FirstWindowType(rs, i + 1)

GetDefaultValue(fieldName, rs) ==
  IF JsTruthy(Prop(StaticDefaults, fieldName)) THEN Prop(StaticDefaults, fieldName)
  ELSE IF fieldName = "vegetation"
  THEN LET vegTypes == SetAddAll(<<>>, ParamKeysFrom(rs, "veg_div", 1))
           firstType == IF vegTypes = <<>> \/ vegTypes[1] = "" THEN "Tree"
                        ELSE vegTypes[1]
       IN Arr(<<VegetationItem(firstType, 100)>>)
  ELSE IF fieldName = "Window Type" THEN S(FirstWindowType(rs, 1))
  ELSE Str(<<>>)

\* The options of an in node whose first operand is the bare var fieldName.
InOptions(obj, fieldName) ==
  LET operands == Prop(obj, "in")
  IN IF JsTruthy(operands) /\ operands.t = "arr" /\ Len(operands.a) = 2
     THEN LET varObj == operands.a[1]
              optionsArray == operands.a[2]
          IN IF Prop(varObj, "var").t = "str"
                  /\ Text(Prop(varObj, "var").s) = fieldName
                  /\ optionsArray.t = "arr"
             THEN Options(optionsArray.a)
             ELSE <<>>
     ELSE <<>>

RECURSIVE TraverseOptions(_, _)
RECURSIVE TraverseOptionsAll(_, _)
TraverseOptions(obj, fieldName) ==
  IF ~IsObject(obj) THEN <<>>
  ELSE InOptions(obj, fieldName) \o TraverseOptionsAll(ObjectValues(obj), fieldName)
TraverseOptionsAll(values, fieldName) ==
  IF values = <<>> THEN <<>>
  ELSE TraverseOptions(Head(values), fieldName)
         \o TraverseOptionsAll(Tail(values), fieldName)

RECURSIVE LogicOptionsFrom(_, _, _)
LogicOptionsFrom(rs, fieldName, i) ==
  IF i > Len(rs) THEN <<>>
  ELSE TraverseOptions(rs[i].logic, fieldName) \o LogicOptionsFrom(rs, fieldName, i + 1)

\* Mutant: the options come from the in nodes of the logic alone.
GetFieldOptionsLogicOnly(fieldName, rs) ==
  SetAddAll(<<>>, LogicOptionsFrom(rs, fieldName, 1))

GetFieldOptions(fieldName, rs) ==
  LET options == SetAddAll(<<>>, LogicOptionsFrom(rs, fieldName, 1))
  IN IF fieldName = "Window Type"
     THEN SetAddAll(options, KeyOptions(ParamKeysFrom(rs, "window_mult", 1)))
     ELSE options

InferFieldType(fieldName, options) ==
  IF Includes(fieldName, "has_") \/ Includes(fieldName, "is_") THEN "boolean"
  ELSE IF Includes(fieldName, "distance") \/ Includes(fieldName, "_ft") THEN "number"
  ELSE IF fieldName = "vegetation" THEN "array"
  ELSE IF JsTruthy(options) /\ Len(options.a) > 0 THEN "select"
  ELSE "text"

\* The field of one name; options is set only when there are some.
FormField(fieldName, rs) ==
  LET options == GetFieldOptions(fieldName, rs)
  IN [name |-> fieldName,
      label |-> Label(fieldName),
      type |-> InferFieldType(fieldName, Undefined),
      defaultValue |-> GetDefaultValue(fieldName, rs),
      options |-> IF Len(options) > 0 THEN Arr(options) ELSE Undefined]

RECURSIVE FieldNamesFrom(_, _)
FieldNamesFrom(rs, i) ==
  IF i > Len(rs) THEN <<>>
  ELSE ExtractFieldsFromLogic(rs[i].logic) \o FieldNamesFrom(rs, i + 1)

GenerateFormFields(rs) ==
  LET fieldNames == SetAddAll(SetAddAll(<<>>, FieldNamesFrom(rs, 1)),
                              ExtractParameterImpliedFields(rs))
  IN [i \in 1..Len(fieldNames) |-> FormField(fieldNames[i], rs)]

(***************************************************************************)
(* The item structure of an array field: getArrayItemStructure and         *)
(* extractArrayFieldOptions of the observation evaluator.                  *)
(***************************************************************************)
\* Mutant: a parameter named after windows adds its keys to every type key.
ParamOptionsAnyDomainToken(paramKey, paramValue, itemKey) ==
  IF paramValue.t # "map" THEN <<>>
  ELSE LET keys == KeyOptions(ObjectKeys(paramValue))
           before == IF Includes(ToLowerCase(itemKey), "type")
                        /\ (Includes(ToLowerCase(paramKey), "veg")
                              \/ Includes(ToLowerCase(paramKey), "window"))
                     THEN keys ELSE <<>>
       IN IF Includes(ToLowerCase(paramKey), ToLowerCase(itemKey))
          THEN before \o keys ELSE before

\* The keys one parameter adds to the options of the item key, in the order
\* it adds them.
ParamOptions(paramKey, paramValue, itemKey) ==
  IF paramValue.t # "map" THEN <<>>
  ELSE LET keys == KeyOptions(ObjectKeys(paramValue))
           veg == IF Includes(ToLowerCase(itemKey), "type")
                     /\ Includes(ToLowerCase(paramKey), "veg")
                  THEN keys ELSE <<>>
           window == IF Includes(ToLowerCase(itemKey), "window")
                        /\ Includes(ToLowerCase(paramKey), "window")
                     THEN keys ELSE <<>>
           before == veg \o window
       IN IF Includes(ToLowerCase(paramKey), ToLowerCase(itemKey))
          THEN before \o keys ELSE before

\* How a call of the form code ends: with a value, or with an exception.
Returned(value) == [threw |-> FALSE, value |-> value]
Thrown(kind) == [threw |-> TRUE, error |-> kind]

\* typeof null is 'object': Object.keys of a null parameter the item key
\* relates to throws.
ParamThrows(paramKey, paramValue, itemKey) ==
  /\ paramValue.t = "null"
  /\ \/ Includes(ToLowerCase(itemKey), "type") /\ Includes(ToLowerCase(paramKey), "veg")
     \/ Includes(ToLowerCase(itemKey), "window")
          /\ Includes(ToLowerCase(paramKey), "window")
     \/ Includes(ToLowerCase(paramKey), ToLowerCase(itemKey))

RuleThrows(rule, itemKey) ==
  /\ JsTruthy(rule.params)
  /\ \E p \in 1..Len(rule.params.k) :
       ParamThrows(rule.params.k[p], rule.params.v[p], itemKey)

RECURSIVE ParamsOptionsFrom(_, _, _)
ParamsOptionsFrom(params, itemKey, i) ==
  IF i > Len(params.k) THEN <<>>
  ELSE ParamOptions(params.k[i], params.v[i], itemKey)
         \o ParamsOptionsFrom(params, itemKey, i + 1)

\* The options of an in node over an array-form var path of the item key.
InArrayOptions(obj, arrayFieldName, itemKey) ==
  LET operands == Prop(obj, "in")
  IN IF JsTruthy(operands) /\ operands.t = "arr" /\ Len(operands.a) = 2
     THEN LET varObj == operands.a[1]
              optionsArray == operands.a[2]
              varArg == Prop(varObj, "var")
          IN IF varArg.t = "arr" /\ varArg.a # <<>> /\ JsTruthy(varArg.a[1])
                  /\ StartsWith(Text(varArg.a[1].s), arrayFieldName \o ".")
                  /\ Includes(Text(varArg.a[1].s), itemKey)
                  /\ optionsArray.t = "arr"
             THEN Options(optionsArray.a)
             ELSE <<>>
     ELSE <<>>

RECURSIVE FindArrayOptions(_, _, _)
RECURSIVE FindArrayOptionsAll(_, _, _)
FindArrayOptions(obj, arrayFieldName, itemKey) ==
  IF ~IsObject(obj) THEN <<>>
  ELSE InArrayOptions(obj, arrayFieldName, itemKey)
         \o FindArrayOptionsAll(ObjectValues(obj), arrayFieldName, itemKey)
FindArrayOptionsAll(values, arrayFieldName, itemKey) ==
  IF values = <<>> THEN <<>>
  ELSE FindArrayOptions(Head(values), arrayFieldName, itemKey)
         \o FindArrayOptionsAll(Tail(values), arrayFieldName, itemKey)

\* Rule by rule: the parameters of the rule, then its logic.
RECURSIVE ArrayOptionsFrom(_, _, _, _)
ArrayOptionsFrom(rs, arrayFieldName, itemKey, i) ==
  IF i > Len(rs) THEN <<>>
  ELSE LET rule == rs[i]
           fromParams == IF JsTruthy(rule.params)
                         THEN ParamsOptionsFrom(rule.params, itemKey, 1)
                         ELSE <<>>
       IN fromParams \o FindArrayOptions(rule.logic, arrayFieldName, itemKey)
            \o ArrayOptionsFrom(rs, arrayFieldName, itemKey, i + 1)

ExtractArrayFieldOptions(rs, arrayFieldName, itemKey) ==
  IF \E i \in 1..Len(rs) : RuleThrows(rs[i], itemKey)
  THEN Thrown("TypeError")
  ELSE Returned(SetAddAll(<<>>,
                          ArrayOptionsFrom(rs, arrayFieldName, itemKey, 1)))

\* formFields.find((f) => f.name === fieldName)
FindField(fields, fieldName) ==
  IF \E i \in 1..Len(fields) : fields[i].name = fieldName
  THEN fields[CHOOSE i \in 1..Len(fields) :
                /\ fields[i].name = fieldName
                /\ \A j \in 1..(i - 1) : fields[j].name # fieldName]
  ELSE Undefined

\* field?.defaultValue?.[0]
SampleItem(field) ==
  IF field = Undefined THEN Undefined
  ELSE IF field.defaultValue.t = "arr" /\ field.defaultValue.a # <<>>
  THEN field.defaultValue.a[1]
  ELSE Undefined

\* The key asks for options: its sample value is no number and its name
\* contains type.
AsksOptions(sampleItem, key) ==
  MapGet(sampleItem, key).t # "num" /\ Includes(ToLowerCase(key), "type")

ItemStructure(rs, fieldName, sampleItem, key) ==
  LET value == MapGet(sampleItem, key)
  IN IF value.t = "num" THEN [key |-> key, type |-> "number", options |-> Undefined]
     ELSE IF Includes(ToLowerCase(key), "type")
     THEN [key |-> key, type |-> "select",
           options |->
             Arr(ExtractArrayFieldOptions(rs, fieldName, key).value)]
     ELSE [key |-> key, type |-> "text", options |-> Undefined]

\* The structure of the items, or the failure of the options of one key.
GetArrayItemStructure(rs, fields, fieldName) ==
  LET sampleItem == SampleItem(FindField(fields, fieldName))
  IN IF sampleItem.t # "map"
     THEN Returned(<<[key |-> "value", type |-> "text", options |-> Undefined]>>)
     ELSE IF \E i \in 1..Len(sampleItem.k) :
               /\ AsksOptions(sampleItem, sampleItem.k[i])
               /\ \E r \in 1..Len(rs) : RuleThrows(rs[r], sampleItem.k[i])
     THEN Thrown("TypeError")
     ELSE Returned([i \in 1..Len(sampleItem.k) |->
                      ItemStructure(rs, fieldName, sampleItem,
                                    sampleItem.k[i])])

(***************************************************************************)
(* Rule lists for the form schema, and the schema's calls: one rule list,  *)
(* one call.                                                               *)
(***************************************************************************)
NoMitigations == [full |-> <<>>, bridge |-> <<>>]

\* An array field other than vegetation, and an in node over an item key.
TreesRule ==
  [name |-> "Tall trees", category |-> "vegetation",
   logic |-> Op("and",
               <<Op(">", <<VarArr(<<"trees", ".", "0", ".", "height">>), Num(10)>>),
                 Op("in", <<VarArr(<<"vegetation", ".", "0", ".", "Type">>),
                            Arr(<<S("Palm"), S("Tree")>>)>>)>>),
   params |-> Map(<<>>, <<>>), explanation |-> "", mitigations |-> NoMitigations]

\* in nodes over bare vars, and a boolean field without a static default.
SidingRule ==
  [name |-> "Combustible siding", category |-> "siding",
   logic |-> Op("and",
               <<Op("in", <<Var(<<"siding_type">>), Arr(<<S("Wood"), S("Vinyl")>>)>>),
                 Op("==", <<Var(<<"is_gated">>), S("False")>>),
                 Op("in", <<Var(<<"roof_type">>),
                            Arr(<<S("Class C"), S("Shake"), S("Class B")>>)>>)>>),
   params |-> Map(<<>>, <<>>), explanation |-> "", mitigations |-> NoMitigations]

\* A field whose name has _ft in the middle.
RoofFtypeRule ==
  [name |-> "Roof form", category |-> "roof",
   logic |-> Op("in", <<Var(<<"roof_ftype">>), Arr(<<S("Gable"), S("Hip")>>)>>),
   params |-> Map(<<>>, <<>>), explanation |-> "", mitigations |-> NoMitigations]

\* An observation field whose name starts with params, in the two var forms.
ParamsVersionArrayRule ==
  [name |-> "Old parameters (array form)", category |-> "meta",
   logic |-> Op("<", <<VarArr(<<"params_version">>), Num(2)>>),
   params |-> Map(<<>>, <<>>), explanation |-> "", mitigations |-> NoMitigations]

ParamsVersionBareRule ==
  [name |-> "Old parameters (bare form)", category |-> "meta",
   logic |-> Op("<", <<Var(<<"params_version">>), Num(2)>>),
   params |-> Map(<<>>, <<>>), explanation |-> "", mitigations |-> NoMitigations]

\* A second window table, a table named after the item key, and an in node
\* over the Window Type field.
GlazingRule ==
  [name |-> "Weak glazing", category |-> "windows",
   logic |-> Op("and",
               <<Op("in", <<Var(<<"Window Type">>), Arr(<<S("Louvered"), S("Single")>>)>>),
                 Op(">", <<Var(<<"params", ".", "window_mult", ".", "Laminated">>),
                           Var(<<"params", ".", "type_weights", ".", "Oak">>)>>)>>),
   params |-> Map(<<"window_mult", "type_weights", "veg_div">>,
                  <<Map(<<"Tempered Glass", "Laminated">>, <<Num(1), Num(2)>>),
                    Map(<<"Oak", "Tree">>, <<Num(1), Num(1)>>),
                    Map(<<"Grass", "Reed">>, <<Num(3), Num(4)>>)>>),
   explanation |-> "", mitigations |-> NoMitigations]

\* A rule one of whose parameters is null.
NullTableRule ==
  [name |-> "Unlisted vegetation", category |-> "vegetation",
   logic |-> Op("==", <<VarArr(<<"vegetation", ".", "0", ".", "Type">>),
                        Var(<<"params", ".", "veg_other">>)>>),
   params |-> Map(<<"veg_other", "base_ft">>, <<Null, Num(30)>>),
   explanation |-> "", mitigations |-> NoMitigations]

SchemaRulePool ==
  {EmberRule, RoofRule, WindowRule, BufferRule, VegetationRule, ZeroDivisorRule,
   TreesRule, SidingRule, RoofFtypeRule, ParamsVersionArrayRule,
   ParamsVersionBareRule, GlazingRule, NullTableRule}

SchemaRuleLists ==
  UNION {[1..n -> SchemaRulePool] : n \in 0..MaxRules} \cup {ExampleRules}

ItemKeys == {"Type", "distance_to_window", "window_type"}

InitSchema ==
  /\ observation = ExampleObservation
  /\ rules \in SchemaRuleLists
  /\ ret = NoCall
  /\ NoForm
  /\ NoUi

CallExtractFieldsFromLogic(i) ==
  /\ ret = NoCall
  /\ ret' = [op |-> "extractFieldsFromLogic", i |-> i,
             out |-> ExtractFieldsFromLogic(rules[i].logic)]
  /\ UNCHANGED <<observation, rules>>
  /\ UNCHANGED formVars
  /\ UNCHANGED uiVars

CallGenerateFormFields ==
  /\ ret = NoCall
  /\ ret' = [op |-> "generateFormFields", out |-> GenerateFormFields(rules)]
  /\ UNCHANGED <<observation, rules>>
  /\ UNCHANGED formVars
  /\ UNCHANGED uiVars

CallExtractArrayFieldOptions(itemKey) ==
  /\ ret = NoCall
  /\ ret' = [op |-> "extractArrayFieldOptions", itemKey |-> itemKey,
             out |-> ExtractArrayFieldOptions(rules, "vegetation", itemKey)]
  /\ UNCHANGED <<observation, rules>>
  /\ UNCHANGED formVars
  /\ UNCHANGED uiVars

CallGetArrayItemStructure ==
  /\ ret = NoCall
  /\ ret' = [op |-> "getArrayItemStructure",
             out |-> GetArrayItemStructure(rules, GenerateFormFields(rules),
                                           "vegetation")]
  /\ UNCHANGED <<observation, rules>>
  /\ UNCHANGED formVars
  /\ UNCHANGED uiVars

NextSchema ==
  \/ \E i \in 1..Len(rules) : CallExtractFieldsFromLogic(i)
  \/ CallGenerateFormFields
  \/ \E itemKey \in ItemKeys : CallExtractArrayFieldOptions(itemKey)
  \/ CallGetArrayItemStructure

SpecSchema == InitSchema /\ [][NextSchema]_vars

(***************************************************************************)
(* Claims about the form schema (SpecSchema).                              *)
(***************************************************************************)
\* The fields of the given name in a generated schema.
FieldsNamed(fields, name) == {j \in 1..Len(fields) : fields[j].name = name}

\* The one field of the given name.
FieldNamed(fields, name) == fields[CHOOSE j \in 1..Len(fields) : fields[j].name = name]

WindowTypes == <<S("Single"), S("Double"), S("Tempered Glass")>>

\* The rule has the window table of the example and its logic names it.
HasWindowTable(rule) ==
  /\ MapHas(rule.params, "window_mult")
  /\ MapGet(rule.params, "window_mult") =
       Map(<<"Single", "Double", "Tempered Glass">>, <<Num(3), Num(2), Num(1)>>)
  /\ StringifyIncludes(rule.logic, "window_mult")

\* The rule brings no window type of its own: no other window table, and no
\* mention of the Window Type field in its logic.
NoOtherWindowTypes(rule) ==
  /\ MapHas(rule.params, "window_mult") => HasWindowTable(rule)
  /\ ~StringifyIncludes(rule.logic, "Window Type")

\* C11: a rule whose params.window_mult is {Single:3, Double:2, "Tempered
\* Glass":1} and whose logic references window_mult makes the schema hold
\* exactly one Window Type field whose options include the three keys; when
\* no other rule of the list brings window types, the options are exactly
\* Single, Double, Tempered Glass, in the key order of the table, although
\* no in expression names the field.
C11_WindowTypeOptionsFromParams ==
  (ret.op = "generateFormFields" /\ \E i \in 1..Len(rules) : HasWindowTable(rules[i])) =>
    /\ Cardinality(FieldsNamed(ret.out, "Window Type")) = 1
    /\ LET field == FieldNamed(ret.out, "Window Type")
       IN /\ field.options.t = "arr"
          /\ \A w \in 1..3 : \E o \in 1..Len(field.options.a) :
               field.options.a[o] = WindowTypes[w]
          /\ (\A k \in 1..Len(rules) : NoOtherWindowTypes(rules[k])) =>
               field.options.a = WindowTypes

C11_Witness ==
  /\ ret.op = "generateFormFields"
  /\ rules = ExampleRules
  /\ \A k \in 1..Len(rules) : ~StringifyIncludes(rules[k].logic, "Window Type")
  /\ FieldNamed(ret.out, "Window Type").options.a = WindowTypes

\* The path strings of the var nodes of a logic tree, bare or array form, in
\* the order a walk of the tree meets them.
RECURSIVE VarPathsIn(_)
RECURSIVE VarPathsInAll(_)
VarPathsIn(node) ==
  IF node.t = "map"
  THEN (IF MapHas(node, "var") /\ VarPath(MapGet(node, "var")).t = "str"
        THEN <<VarPath(MapGet(node, "var")).s>> ELSE <<>>)
         \o VarPathsInAll(node.v)
  ELSE IF node.t = "arr" THEN VarPathsInAll(node.a)
  ELSE <<>>
VarPathsInAll(nodes) ==
  IF nodes = <<>> THEN <<>>
  ELSE VarPathsIn(Head(nodes)) \o VarPathsInAll(Tail(nodes))

\* The top-level field a path names: its first segment.
TopLevelField(path) == Text(Head(Split(path)))

\* The top-level fields of the paths that are not under params, each once,
\* in the order of first appearance.
RECURSIVE TopLevelFields(_)
TopLevelFields(paths) ==
  IF paths = <<>> THEN <<>>
  ELSE LET rest == TopLevelFields(Tail(paths))
           field == TopLevelField(Head(paths))
       IN IF field = "params" THEN rest
          ELSE <<field>> \o SelectSeq(rest, LAMBDA f : f # field)

\* C12 as stated: field discovery yields the first segment of every var
\* path, the same for the bare-string form and the one-element-array form
\* ({"var": "vegetation.0.distance_to_window"} discovers the single field
\* vegetation), each field once, in the order of first appearance.
\* (Stated for the trees none of whose fields has a name that starts with
\* params without being params: those are the matter of C17.)
C12_Original ==
  LET paths == VarPathsIn(rules[ret.i].logic)
  IN (/\ ret.op = "extractFieldsFromLogic"
      /\ \A j \in 1..Len(paths) :
           TopLevelField(paths[j]) = "params"
             \/ ~StartsWith(TopLevelField(paths[j]), "params")) =>
       ret.out = TopLevelFields(paths)

\* Some discovered name lies under the top-level field.
Keeps(fields, field) == \E j \in 1..Len(fields) : FirstSegment(fields[j]) = field

\* C17 as stated: field discovery excludes every var path that begins with
\* params and includes the field of every other var path, and the decision
\* is the same for the bare-string and the one-element-array form of var: no
\* field is named after a rule parameter and no observation field is dropped.
C17_Original ==
  ret.op = "extractFieldsFromLogic" =>
    LET paths == VarPathsIn(rules[ret.i].logic)
    IN \A j \in 1..Len(paths) :
         LET field == TopLevelField(paths[j])
         IN /\ field = "params" => ~Keeps(ret.out, field)
            /\ (field # "params" /\ field # "") => Keeps(ret.out, field)
            /\ Keeps(ExtractFieldsFromLogic(Var(paths[j])), field)
                 <=> Keeps(ExtractFieldsFromLogic(VarArr(paths[j])), field)

\* The type rules of the schema by name and by path.
HasBooleanName(f) == Includes(f, "has_") \/ Includes(f, "is_")
HasNumberName(f) == Includes(f, "distance") \/ EndsWith(f, "_ft")
HasNumericSecondSegment(path) ==
  LET segs == Split(path) IN Len(segs) >= 2 /\ ParsesAsInt(segs[2])

\* The var paths of every rule of the list, in rule order.
RECURSIVE VarPathsOfRules(_)
VarPathsOfRules(rs) ==
  IF rs = <<>> THEN <<>> ELSE VarPathsIn(Head(rs).logic) \o VarPathsOfRules(Tail(rs))

HasIndexedPath(f, rs) ==
  LET paths == VarPathsOfRules(rs)
  IN \E j \in 1..Len(paths) :
       TopLevelField(paths[j]) = f /\ HasNumericSecondSegment(paths[j])

\* The elements of the literal arrays of the in nodes whose first operand is
\* a var of path f, in the order a walk of the tree meets them.
RECURSIVE InArraysOf(_, _)
RECURSIVE InArraysOfAll(_, _)
InArraysOf(node, f) ==
  IF node.t = "map"
  THEN (IF /\ MapHas(node, "in")
           /\ MapGet(node, "in").t = "arr"
           /\ Len(MapGet(node, "in").a) = 2
           /\ MapGet(node, "in").a[1].t = "map"
           /\ MapHas(MapGet(node, "in").a[1], "var")
           /\ VarPath(MapGet(MapGet(node, "in").a[1], "var")).t = "str"
           /\ Text(VarPath(MapGet(MapGet(node, "in").a[1], "var")).s) = f
           /\ MapGet(node, "in").a[2].t = "arr"
        THEN MapGet(node, "in").a[2].a ELSE <<>>)
         \o InArraysOfAll(node.v, f)
  ELSE IF node.t = "arr" THEN InArraysOfAll(node.a, f)
  ELSE <<>>
InArraysOfAll(nodes, f) ==
  IF nodes = <<>> THEN <<>>
  ELSE InArraysOf(Head(nodes), f) \o InArraysOfAll(Tail(nodes), f)

RECURSIVE InArraysOfRules(_, _)
InArraysOfRules(rs, f) ==
  IF rs = <<>> THEN <<>>
  ELSE InArraysOf(Head(rs).logic, f) \o InArraysOfRules(Tail(rs), f)

\* Each element once, in the order of first appearance.
RECURSIVE FirstAppearances(_)
FirstAppearances(xs) ==
  IF xs = <<>> THEN <<>>
  ELSE <<Head(xs)>> \o SelectSeq(FirstAppearances(Tail(xs)), LAMBDA x : x # Head(xs))

\* C13 as stated: a field that is not boolean, number or array by the
\* earlier rules and that is the first operand of some in node with a
\* literal array has inferredType select, with the union of those arrays in
\* first-appearance order as options; roof_type and wildfire_risk_category
\* of the example rules are select.
C13_Original ==
  ret.op = "generateFormFields" =>
    \A j \in 1..Len(ret.out) :
      LET f == ret.out[j].name
          arrays == FirstAppearances(InArraysOfRules(rules, f))
      IN (/\ ~HasBooleanName(f) /\ ~HasNumberName(f) /\ ~HasIndexedPath(f, rules)
          /\ arrays # <<>>) =>
           /\ ret.out[j].type = "select"
           /\ ret.out[j].options = Arr(arrays)

\* C14 as stated: a field that is not boolean or number by name has
\* inferredType array exactly when some var path for it has a numeric second
\* segment (trees.0.height makes trees an array field), whatever its name.
C14_Original ==
  ret.op = "generateFormFields" =>
    \A j \in 1..Len(ret.out) :
      LET f == ret.out[j].name
      IN (~HasBooleanName(f) /\ ~HasNumberName(f)) =>
           (ret.out[j].type = "array" <=> HasIndexedPath(f, rules))

\* C15 as stated: a field whose name contains neither has_ nor is_ has
\* inferredType number exactly when its name contains distance or ends in
\* _ft; roof_ftype, with _ft in the middle, is not a number field.
C15_Original ==
  ret.op = "generateFormFields" =>
    \A j \in 1..Len(ret.out) :
      LET f == ret.out[j].name
      IN ~HasBooleanName(f) =>
           (ret.out[j].type = "number" <=> HasNumberName(f))

\* C16 as stated: a field with a static known default gets it (a boolean
\* field defaults to the string "True"); any other field that has options
\* gets the first discovered option; an array field defaults to a
\* one-element seed.
C16_Original ==
  ret.op = "generateFormFields" =>
    \A j \in 1..Len(ret.out) :
      LET field == ret.out[j]
      IN /\ MapHas(StaticDefaults, field.name) =>
              field.defaultValue = MapGet(StaticDefaults, field.name)
         /\ field.type = "boolean" => field.defaultValue = S("True")
         /\ (/\ ~MapHas(StaticDefaults, field.name)
             /\ field.type # "boolean"
             /\ field.options.t = "arr") =>
              field.defaultValue = field.options.a[1]
         /\ field.type = "array" =>
              field.defaultValue.t = "arr" /\ Len(field.defaultValue.a) = 1

\* The mapping-valued parameters of a rule, as positions of its params.
MappingParams(rule) == {p \in 1..Len(rule.params.k) : rule.params.v[p].t = "map"}

HasOption(options, key) == \E o \in 1..Len(options) : options[o] = S(key)

\* C18 as stated: for an item key containing type, every mapping-valued rule
\* parameter whose key contains veg or window, and every parameter whose key
\* contains the item key, contributes its own keys to the item's options.
C18_Original ==
  (/\ ret.op = "extractArrayFieldOptions"
   /\ ~ret.out.threw
   /\ Includes(ToLowerCase(ret.itemKey), "type")) =>
    \A i \in 1..Len(rules) : \A p \in MappingParams(rules[i]) :
      LET paramKey == ToLowerCase(rules[i].params.k[p])
          keys == rules[i].params.v[p].k
      IN (\/ Includes(paramKey, "veg")
          \/ Includes(paramKey, "window")
          \/ Includes(paramKey, ToLowerCase(ret.itemKey))) =>
           \A k \in 1..Len(keys) : HasOption(ret.out.value, keys[k])

\* A parameter key relates to an item key: a vegetation table to a type key,
\* a window table to a window key, and any table named after the item key
\* (all compared in lower case).
Relates(paramKey, itemKey) ==
  \/ Includes(ToLowerCase(itemKey), "type") /\ Includes(ToLowerCase(paramKey), "veg")
  \/ Includes(ToLowerCase(itemKey), "window") /\ Includes(ToLowerCase(paramKey), "window")
  \/ Includes(ToLowerCase(paramKey), ToLowerCase(itemKey))

\* The keys of the related mapping-valued parameters of a rule, in the key
\* order of its params.
RECURSIVE RelatedKeys(_, _, _)
RelatedKeys(rule, itemKey, p) ==
  IF p > Len(rule.params.k) THEN <<>>
  ELSE (IF p \in MappingParams(rule) /\ Relates(rule.params.k[p], itemKey)
        THEN KeyOptions(rule.params.v[p].k) ELSE <<>>)
         \o RelatedKeys(rule, itemKey, p + 1)

\* The elements of the literal arrays of the in nodes whose first operand is
\* an array-form var of a path under the array field that contains the item
\* key.
RECURSIVE ItemInArraysOf(_, _, _)
RECURSIVE ItemInArraysOfAll(_, _, _)
ItemInArraysOf(node, arrayField, itemKey) ==
  IF node.t = "map"
  THEN (IF /\ MapHas(node, "in")
           /\ MapGet(node, "in").t = "arr"
           /\ Len(MapGet(node, "in").a) = 2
           /\ MapGet(node, "in").a[1].t = "map"
           /\ MapHas(MapGet(node, "in").a[1], "var")
           /\ MapGet(MapGet(node, "in").a[1], "var").t = "arr"
           /\ VarPath(MapGet(MapGet(node, "in").a[1], "var")).t = "str"
           /\ LET path == VarPath(MapGet(MapGet(node, "in").a[1], "var")).s
              IN /\ Len(Split(path)) >= 2
                 /\ TopLevelField(path) = arrayField
                 /\ Includes(Text(path), itemKey)
           /\ MapGet(node, "in").a[2].t = "arr"
        THEN MapGet(node, "in").a[2].a ELSE <<>>)
         \o ItemInArraysOfAll(node.v, arrayField, itemKey)
  ELSE IF node.t = "arr" THEN ItemInArraysOfAll(node.a, arrayField, itemKey)
  ELSE <<>>
ItemInArraysOfAll(nodes, arrayField, itemKey) ==
  IF nodes = <<>> THEN <<>>
  ELSE ItemInArraysOf(Head(nodes), arrayField, itemKey)
         \o ItemInArraysOfAll(Tail(nodes), arrayField, itemKey)

RECURSIVE Contributions(_, _)
Contributions(rs, itemKey) ==
  IF rs = <<>> THEN <<>>
  ELSE RelatedKeys(Head(rs), itemKey, 1)
         \o ItemInArraysOf(Head(rs).logic, "vegetation", itemKey)
         \o Contributions(Tail(rs), itemKey)

\* The options of a call that returns: the contributions in first-appearance
\* order, every related table among them.
ArrayItemOptionsAre(options) ==
  /\ options = FirstAppearances(Contributions(rules, ret.itemKey))
  /\ \A i \in 1..Len(rules) : \A p \in MappingParams(rules[i]) :
       LET paramKey == ToLowerCase(rules[i].params.k[p])
           itemKey == ToLowerCase(ret.itemKey)
           keys == rules[i].params.v[p].k
       IN /\ (Includes(itemKey, "type") /\ Includes(paramKey, "veg")) =>
               \A k \in 1..Len(keys) : HasOption(options, keys[k])
          /\ Includes(paramKey, itemKey) =>
               \A k \in 1..Len(keys) : HasOption(options, keys[k])
          /\ (Includes(paramKey, "window") /\ Includes(itemKey, "window")) =>
               \A k \in 1..Len(keys) : HasOption(options, keys[k])
  /\ (ret.itemKey = "Type" /\ rules = <<WindowRule>>) =>
       options = <<S("Tree"), S("Shrub"), S("Grass")>>

\* C18 amended: for an item key containing type, every mapping-valued rule
\* parameter whose key contains veg contributes its own keys to the item's
\* options; a parameter whose key contains window contributes only when the
\* item key contains window too; every mapping-valued parameter whose key
\* contains the item key contributes. The options are these keys and the
\* literal arrays of the in nodes over the item, unioned across the rules in
\* first-appearance order. The call throws exactly when a related parameter
\* of some rule is null.
C18_ArrayItemOptions ==
  ret.op = "extractArrayFieldOptions" =>
    LET nullTable == \E i \in 1..Len(rules) : \E p \in 1..Len(rules[i].params.k) :
                       /\ rules[i].params.v[p] = Null
                       /\ Relates(rules[i].params.k[p], ret.itemKey)
    IN /\ ret.out.threw <=> nullTable
       /\ ~nullTable => ArrayItemOptionsAre(ret.out.value)

C18_Witness ==
  /\ ret.op = "extractArrayFieldOptions"
  /\ ret.itemKey = "Type"
  /\ rules = <<WindowRule, GlazingRule>>
  /\ ret.out.value = <<S("Tree"), S("Shrub"), S("Grass"), S("Oak"), S("Reed")>>
  /\ ~HasOption(ret.out.value, "Single")

(***************************************************************************)
(* The observation form (ObservationEvaluator): the as-of date, the rules  *)
(* fetched for it and the form generated from them. getRules is answered   *)
(* by the rule source, which returns the rules active at the instant asked *)
(* for; every call in flight is answered on its own, in any order.         *)
(***************************************************************************)
MaxFetches == 3

\* A date string is before another: YYYY-MM-DD strings compare digit by digit.
RECURSIVE DateBeforeFrom(_, _, _)
DateBeforeFrom(a, b, i) ==
  IF i > Len(a) \/ i > Len(b) THEN FALSE
  ELSE LET x == SubSeq(a, i, i)
           y == SubSeq(b, i, i)
       IN IF x = y THEN DateBeforeFrom(a, b, i + 1)
          ELSE IsIn(x, Digits) /\ IsIn(y, Digits)
                 /\ PlaceIn(x, Digits) < PlaceIn(y, Digits)
DateBefore(a, b) == DateBeforeFrom(a, b, 1)

\* The rule with its dates; retired_date "" when the rule is not retired.
Dated(rule, effective, retired) ==
  [name |-> rule.name, category |-> rule.category, logic |-> rule.logic,
   params |-> rule.params, explanation |-> rule.explanation,
   mitigations |-> rule.mitigations,
   effective_date |-> effective, retired_date |-> retired]

\* The rules the rule source holds: the example rules, effective 2024-01-01,
\* before them a rule retired on that day, after them a later rule.
StoredRules ==
  <<Dated(SidingRule, "2022-01-01", "2024-01-01"),
    Dated(EmberRule, "2024-01-01", ""),
    Dated(RoofRule, "2024-01-01", ""),
    Dated(WindowRule, "2024-01-01", ""),
    Dated(GlazingRule, "2025-01-01", "")>>

\* The instant of a call without as_of.
Today == "2026-01-01"

AsOfDates == {"", "2023-06-01T00:00", "2024-06-01T00:00"}

\* effective_date <= T < retired_date, unbounded when not retired.
ActiveAt(rule, instant) ==
  /\ ~DateBefore(instant, rule.effective_date)
  /\ rule.retired_date = "" \/ DateBefore(instant, rule.retired_date)

\* GET /api/v1/rules?as_of=...: the rules active at the instant, in order.
RulesAsOf(store, asOf) ==
  SelectSeq(store, LAMBDA rule : ActiveAt(rule, IF asOf = "" THEN Today ELSE asOf))

\* initialData: every field's default value under the field's name.
InitialData(fields) ==
  Map([j \in 1..Len(fields) |-> fields[j].name],
      [j \in 1..Len(fields) |-> fields[j].defaultValue])

\* The form after mounting: the effect has called getRules for the date ''.
InitForm ==
  /\ rules = StoredRules
  /\ ret = NoCall
  /\ observation = Map(<<>>, <<>>)
  /\ asOfDate = ""
  /\ activeRules = <<>>
  /\ formFields = <<>>
  /\ requests = <<[asOf |-> "", state |-> "pending"]>>
  /\ error = ""
  /\ NoUi

\* The date input changes: the effect on asOfDate calls getRules for it.
SetAsOfDate(date) ==
  /\ date # asOfDate
  /\ Len(requests) < MaxFetches
  /\ asOfDate' = date
  /\ requests' = Append(requests, [asOf |-> date, state |-> "pending"])
  /\ UNCHANGED <<observation, rules, ret, activeRules, formFields, error>>
  /\ UNCHANGED uiVars

\* A getRules call resolves: loadRulesAndGenerateForm continues after await.
GetRulesResolves(n) ==
  /\ requests[n].state = "pending"
  /\ LET fetched == RulesAsOf(rules, requests[n].asOf)
         fields == GenerateFormFields(fetched)
     IN /\ activeRules' = fetched
        /\ formFields' = fields
        /\ observation' = InitialData(fields)
  /\ error' = ""
  /\ requests' = [requests EXCEPT ![n].state = "fulfilled"]
  /\ UNCHANGED <<rules, ret, asOfDate>>
  /\ UNCHANGED uiVars

\* A getRules call rejects: the catch branch reports the failure.
GetRulesRejects(n) ==
  /\ requests[n].state = "pending"
  /\ error' = "Failed to load rules and generate form"
  /\ requests' = [requests EXCEPT ![n].state = "rejected"]
  /\ UNCHANGED <<observation, rules, ret, asOfDate, activeRules, formFields>>
  /\ UNCHANGED uiVars

NextForm ==
  \/ \E date \in AsOfDates : SetAsOfDate(date)
  \/ \E n \in 1..Len(requests) : GetRulesResolves(n)
  \/ \E n \in 1..Len(requests) : GetRulesRejects(n)

SpecForm == InitForm /\ [][NextForm]_vars

(***************************************************************************)
(* Claims about the observation form (SpecForm).                           *)
(***************************************************************************)
AllFetchesSucceeded ==
  \A n \in 1..Len(requests) : requests[n].state = "fulfilled"

\* C20 as stated: after the user changed asOfDate any number of times and
\* every rule fetch has completed successfully, activeRules, formFields and
\* the observation's defaults are those of the rule set fetched for the
\* latest asOfDate, whatever order the responses arrived in.
C20_Original ==
  AllFetchesSucceeded =>
    LET latest == RulesAsOf(rules, asOfDate)
    IN /\ activeRules = latest
       /\ formFields = GenerateFormFields(latest)
       /\ observation = InitialData(GenerateFormFields(latest))

(***************************************************************************)
(* The application shell (App): the role switcher and the navigation bar.  *)
(* App renders the component of the current view; a component that is      *)
(* mounted loads the rules, and reports to App through onError, which sets *)
(* appState.error. The observation form is the component modelled in full; *)
(* of the rules manager, the rule tester and of a component that was       *)
(* unmounted with a call in flight, App sees the onError calls only: their *)
(* calls are the requests in state "detached". appState.error is null or a *)
(* string; null and '' both hide the banner and are the empty string here. *)
(***************************************************************************)
UserRoles == {"underwriter", "applied-science"}

\* The navigation items with the roles that see them.
navigation ==
  <<[id |-> "evaluation", roles |-> {"underwriter"}],
    [id |-> "rules", roles |-> {"applied-science"}],
    [id |-> "testing", roles |-> {"applied-science"}]>>

\* navigation.filter((item) => item.roles.includes(userRole))
FilteredNavigation(role) ==
  SelectSeq(navigation, LAMBDA item : role \in item.roles)

\* The calls still in flight when their component is unmounted: they settle
\* later, and all that is left of them is the onError call.
Detached(reqs) ==
  LET inFlight == SelectSeq(reqs, LAMBDA r : r.state \in {"pending", "detached"})
  IN [n \in 1..Len(inFlight) |-> [inFlight[n] EXCEPT !.state = "detached"]]

\* The component of the view is mounted in place of the one shown before.
Mount(view) ==
  /\ Len(Detached(requests)) < MaxFetches
  /\ asOfDate' = ""
  /\ activeRules' = <<>>
  /\ formFields' = <<>>
  /\ observation' = Map(<<>>, <<>>)
  /\ requests' =
       Append(Detached(requests),
              [asOf |-> "",
               state |-> IF view = "evaluation" THEN "pending" ELSE "detached"])

\* App with a role switcher that keeps the view.
SwitchRoleKeepsView(role) ==
  /\ role # userRole
  /\ userRole' = role
  /\ UNCHANGED currentView
  /\ UNCHANGED <<asOfDate, activeRules, formFields, observation, requests>>
  /\ UNCHANGED <<rules, ret, error, result, loading, calls, selectedRule,
                 testResult, editingRule, isCreating, formData, saved, stored>>

\* The role switcher changes: the role, and the first view of the role.
SwitchRole(role) ==
  /\ role # userRole
  /\ userRole' = role
  /\ currentView' = IF role = "underwriter" THEN "evaluation" ELSE "rules"
  /\ Mount(currentView')
  /\ UNCHANGED <<rules, ret, error, result, loading, calls, selectedRule,
                 testResult, editingRule, isCreating, formData, saved, stored>>

\* A navigation button is clicked: one of the buttons the role sees.
Navigate(n) ==
  /\ n \in 1..Len(FilteredNavigation(userRole))
  /\ currentView' = FilteredNavigation(userRole)[n].id
  /\ IF currentView' = currentView
     THEN UNCHANGED <<asOfDate, activeRules, formFields, observation, requests>>
     ELSE Mount(currentView')
  /\ UNCHANGED <<rules, ret, error, userRole, result, loading, calls, selectedRule,
                 testResult, editingRule, isCreating, formData, saved, stored>>

\* The error banner is dismissed.
DismissError ==
  /\ error # ""
  /\ error' = ""
  /\ UNCHANGED <<observation, rules, ret, asOfDate, activeRules, formFields, requests>>
  /\ UNCHANGED uiVars

\* A detached call settles: onError('') or onError of the failure.
DetachedSettles(n, ok) ==
  /\ requests[n].state = "detached"
  /\ error' = IF ok THEN "" ELSE "Failed to load rules"
  /\ requests' = [m \in 1..(Len(requests) - 1) |->
                    IF m < n THEN requests[m] ELSE requests[m + 1]]
  /\ UNCHANGED <<observation, rules, ret, asOfDate, activeRules, formFields>>
  /\ UNCHANGED uiVars

NextApp ==
  \/ \E role \in UserRoles : SwitchRole(role)
  \/ \E n \in 1..Len(navigation) : Navigate(n)
  \/ DismissError
  \/ \E n \in 1..Len(requests) : \E ok \in BOOLEAN : DetachedSettles(n, ok)
  \/ \E date \in AsOfDates : currentView = "evaluation" /\ SetAsOfDate(date)
  \/ \E n \in 1..Len(requests) : GetRulesResolves(n)
  \/ \E n \in 1..Len(requests) : GetRulesRejects(n)

SpecApp == InitForm /\ [][NextApp]_vars

(***************************************************************************)
(* Claims about the application shell (SpecApp).                           *)
(***************************************************************************)
\* The views permitted for a role.
PermittedViews(role) ==
  IF role = "underwriter" THEN {"evaluation"} ELSE {"rules", "testing"}

\* C30: in App, after any sequence of role switches and navigation clicks,
\* currentView is a view permitted for the current userRole: evaluation for
\* underwriter, rules or testing for applied-science.
C30_ViewPermittedForRole == currentView \in PermittedViews(userRole)

\* The applied-science role has navigated to the rule tester.
C30_Witness == userRole = "applied-science" /\ currentView = "testing"

(***************************************************************************)
(* Edits of the observation (ObservationEvaluator and RuleTester have the  *)
(* same handlers). Item indexes are JavaScript's: the first item is 0.     *)
(***************************************************************************)
MaxItems == 2

\* { ...obj, [key]: value }: the key keeps its place, a new key goes last.
SetProp(obj, key, value) ==
  IF MapHas(obj, key)
  THEN Map(obj.k, [j \in 1..Len(obj.k) |-> IF obj.k[j] = key THEN value ELSE obj.v[j]])
  ELSE Map(Append(obj.k, key), Append(obj.v, value))

\* items.filter((_, i) => i !== index)
RECURSIVE FilterOutIndex(_, _, _)
FilterOutIndex(items, index, i) ==
  IF i >= Len(items) THEN <<>>
  ELSE (IF i # index THEN <<items[i + 1]>> ELSE <<>>)
         \o FilterOutIndex(items, index, i + 1)

\* handleFieldChange
HandleFieldChange(prev, fieldName, value) == SetProp(prev, fieldName, value)

\* addArrayItem: a copy of the field's sample item, or { value: '' }.
AddArrayItem(prev, fields, fieldName) ==
  LET sample == SampleItem(FindField(fields, fieldName))
      defaultItem == IF JsTruthy(sample) THEN sample ELSE Map(<<>>, <<>>)
      newItem == IF Len(ObjectKeys(defaultItem)) > 0 THEN defaultItem
                 ELSE Map(<<"value">>, <<Str(<<>>)>>)
      old == Prop(prev, fieldName)
  IN SetProp(prev, fieldName,
             Arr((IF JsTruthy(old) THEN old.a ELSE <<>>) \o <<newItem>>))

\* In removeArrayItem and updateArrayItem the field is an array or missing:
\* only the items of an array field have these buttons.

\* removeArrayItem without the index test: the array is emptied.
RemoveArrayItemAll(prev, fieldName, index) ==
  SetProp(prev, fieldName, Arr(<<>>))

\* removeArrayItem: prev[fieldName]?.filter((_, i) => i !== index) || []
RemoveArrayItem(prev, fieldName, index) ==
  LET old == Prop(prev, fieldName)
  IN SetProp(prev, fieldName,
             IF old.t = "arr" THEN Arr(FilterOutIndex(old.a, index, 0))
             ELSE Arr(<<>>))

\* updateArrayItem writing the key into every item.
UpdateArrayItemEveryItem(prev, fieldName, index, itemField, value) ==
  LET old == Prop(prev, fieldName)
  IN SetProp(prev, fieldName,
             IF old.t = "arr"
             THEN Arr([j \in 1..Len(old.a) |-> SetProp(old.a[j], itemField, value)])
             ELSE Arr(<<>>))

\* updateArrayItem: prev[fieldName]?.map((item, i) =>
\*   i === index ? { ...item, [itemField]: value } : item) || []
UpdateArrayItem(prev, fieldName, index, itemField, value) ==
  LET old == Prop(prev, fieldName)
  IN SetProp(prev, fieldName,
             IF old.t = "arr"
             THEN Arr([j \in 1..Len(old.a) |->
                         IF j - 1 = index
                         THEN SetProp(old.a[j], itemField, value)
                         ELSE old.a[j]])
             ELSE Arr(<<>>))

(***************************************************************************)
(* The rule tester (RuleTester): the rules it loaded, the selected rule,   *)
(* the form generated for it, the observation under test and the result of *)
(* the last test. testRule is answered by the rule source with { hit };    *)
(* ret keeps the last answer together with the id of the rule it tested.   *)
(***************************************************************************)
\* A stored rule: the rule with its dates and the id the rule source gave it.
Identified(rule, id) ==
  [id |-> id, name |-> rule.name, category |-> rule.category,
   logic |-> rule.logic, params |-> rule.params,
   explanation |-> rule.explanation, mitigations |-> rule.mitigations,
   effective_date |-> rule.effective_date, retired_date |-> rule.retired_date]

\* The rules the rule source holds for the tester.
TesterRules ==
  <<Identified(Dated(EmberRule, "2024-01-01", ""), 1),
    Identified(Dated(WindowRule, "2024-01-01", ""), 2),
    Identified(Dated(VegetationRule, "2024-01-01", ""), 3)>>

\* The values the inputs of a field can give, by the type of the field.
InputValues(type) ==
  IF type = "boolean" THEN {S("True"), S("False")}
  ELSE IF type = "number" THEN {Num(0), Num(40)}
  ELSE {S("Double"), S("Shrub")}

AllInputValues ==
  InputValues("boolean") \cup InputValues("number") \cup InputValues("text")

\* The message of the error a failed request throws.
HttpError == "HTTP error! status: 500"

InitTester ==
  /\ NoForm
  /\ observation = Map(<<>>, <<>>)
  /\ rules = <<>>
  /\ ret = NoCall
  /\ currentView = "testing"
  /\ userRole = "applied-science"
  /\ result = Null
  /\ loading = FALSE
  /\ calls = <<[op |-> "getRules"]>>
  /\ selectedRule = Null
  /\ testResult = Null
  /\ editingRule = Null
  /\ isCreating = FALSE
  /\ formData = Null
  /\ saved = <<>>
  /\ stored = TesterRules

\* What no action of the tester changes.
testerFrame ==
  <<asOfDate, activeRules, requests, currentView, userRole, result,
    editingRule, isCreating, formData, saved, stored>>

\* The calls but the n-th.
Without(cs, n) ==
  [m \in 1..(Len(cs) - 1) |-> IF m < n THEN cs[m] ELSE cs[m + 1]]

\* loadRules: getRules resolves, or rejects.
LoadRulesSettles(n, ok) ==
  /\ calls[n].op = "getRules"
  /\ IF ok
     THEN rules' = RulesAsOf(stored, "") /\ error' = ""
     ELSE error' = HttpError /\ UNCHANGED rules
  /\ calls' = Without(calls, n)
  /\ UNCHANGED <<observation, ret, formFields, loading, selectedRule, testResult>>
  /\ UNCHANGED testerFrame

\* A rule of the list is clicked: setSelectedRule, and the effect on
\* selectedRule runs generateFormForSelectedRule.
SelectRule(i) ==
  /\ rules[i] # selectedRule
  /\ selectedRule' = rules[i]
  /\ LET fields == GenerateFormFields(<<rules[i]>>)
     IN /\ formFields' = fields
        /\ observation' = InitialData(fields)
  /\ testResult' = Null
  /\ UNCHANGED <<rules, ret, error, loading, calls>>
  /\ UNCHANGED testerFrame

\* The test button is clicked; it is there for a selected rule and enabled
\* when nothing is loading and the form has fields.
HandleTestRule ==
  /\ selectedRule # Null
  /\ ~loading
  /\ Len(formFields) > 0
  /\ IF selectedRule.id = 0
     THEN error' = "Please select a rule to test" /\ UNCHANGED <<loading, calls>>
     ELSE /\ loading' = TRUE
          /\ calls' = Append(calls, [op |-> "testRule", id |-> selectedRule.id])
          /\ UNCHANGED error
  /\ UNCHANGED <<observation, rules, ret, formFields, selectedRule, testResult>>
  /\ UNCHANGED testerFrame

\* testRule resolves with { hit }.
TestRuleResolves(n, hit) ==
  /\ calls[n].op = "testRule"
  /\ testResult' = Map(<<"hit">>, <<Bool(hit)>>)
  /\ error' = ""
  /\ loading' = FALSE
  /\ ret' = [op |-> "testRule", id |-> calls[n].id, out |-> testResult']
  /\ calls' = Without(calls, n)
  /\ UNCHANGED <<observation, rules, formFields, selectedRule>>
  /\ UNCHANGED testerFrame

\* testRule rejects.
TestRuleRejects(n) ==
  /\ calls[n].op = "testRule"
  /\ error' = HttpError
  /\ loading' = FALSE
  /\ calls' = Without(calls, n)
  /\ UNCHANGED <<observation, rules, ret, formFields, selectedRule, testResult>>
  /\ UNCHANGED testerFrame

\* What the edits of the observation leave alone.
editFrame ==
  <<rules, ret, error, formFields, loading, calls, selectedRule, testResult>>

\* An input of a field that is no array changes.
ChangeField(f, value) ==
  /\ formFields[f].type # "array"
  /\ value \in InputValues(formFields[f].type)
  /\ observation' = HandleFieldChange(observation, formFields[f].name, value)
  /\ UNCHANGED editFrame
  /\ UNCHANGED testerFrame

\* The add button of an array field.
AddItem(f) ==
  /\ formFields[f].type = "array"
  /\ Len(Prop(observation, formFields[f].name).a) < MaxItems
  /\ observation' = AddArrayItem(observation, formFields, formFields[f].name)
  /\ UNCHANGED editFrame
  /\ UNCHANGED testerFrame

\* removeArrayItem(fieldName, index); the remove button of an item gives
\* the index of the item, the other indexes are calls of the function with
\* an index outside the array.
RemoveItem(f, index) ==
  /\ formFields[f].type = "array"
  /\ observation' = RemoveArrayItem(observation, formFields[f].name, index)
  /\ UNCHANGED editFrame
  /\ UNCHANGED testerFrame

\* updateArrayItem(fieldName, index, itemField, value): an input of an item
\* changes; the keys are those of the field's sample item.
UpdateItem(f, index, itemField, value) ==
  /\ formFields[f].type = "array"
  /\ itemField \in {formFields[f].defaultValue.a[1].k[j] :
                      j \in 1..Len(formFields[f].defaultValue.a[1].k)}
  /\ observation' =
       UpdateArrayItem(observation, formFields[f].name, index, itemField, value)
  /\ UNCHANGED editFrame
  /\ UNCHANGED testerFrame

NextTester ==
  \/ \E n \in 1..Len(calls) : \E ok \in BOOLEAN : LoadRulesSettles(n, ok)
  \/ \E i \in 1..Len(rules) : SelectRule(i)
  \/ HandleTestRule
  \/ \E n \in 1..Len(calls) : \E hit \in BOOLEAN : TestRuleResolves(n, hit)
  \/ \E n \in 1..Len(calls) : TestRuleRejects(n)
  \/ \E f \in 1..Len(formFields) :
       \E value \in AllInputValues : ChangeField(f, value)
  \/ \E f \in 1..Len(formFields) : AddItem(f)

SpecTester == InitTester /\ [][NextTester]_vars

(***************************************************************************)
(* The edits of the observation on their own: the tester with its rules    *)
(* loaded and one of them selected, and then any edits of the form.        *)
(***************************************************************************)
InitEdits ==
  /\ asOfDate = ""
  /\ activeRules = <<>>
  /\ requests = <<>>
  /\ error = ""
  /\ rules = TesterRules
  /\ ret = NoCall
  /\ currentView = "testing"
  /\ userRole = "applied-science"
  /\ result = Null
  /\ loading = FALSE
  /\ calls = <<>>
  /\ selectedRule \in {TesterRules[i] : i \in 1..Len(TesterRules)}
  /\ formFields = GenerateFormFields(<<selectedRule>>)
  /\ observation = InitialData(formFields)
  /\ testResult = Null
  /\ editingRule = Null
  /\ isCreating = FALSE
  /\ formData = Null
  /\ saved = <<>>
  /\ stored = TesterRules

NextEdits ==
  \/ \E f \in 1..Len(formFields) :
       \E value \in AllInputValues : ChangeField(f, value)
  \/ \E f \in 1..Len(formFields) : AddItem(f)
  \/ \E f \in 1..Len(formFields) : \E index \in 0..MaxItems : RemoveItem(f, index)
  \/ \E f \in 1..Len(formFields) : \E index \in 0..MaxItems :
       \E itemField \in ItemKeys : \E value \in {S("Shrub"), Num(40)} :
         UpdateItem(f, index, itemField, value)

SpecEdits == InitEdits /\ [][NextEdits]_vars

(***************************************************************************)
(* Claims about the rule tester (SpecTester).                              *)
(***************************************************************************)
\* The line of the Test Results panel of RuleTester; "" when no panel shows.
TestResultsLabel(res) ==
  IF ~JsTruthy(res) THEN ""
  ELSE IF JsTruthy(Prop(res, "matched")) THEN "Rule Triggered"
  ELSE "Rule Passed"

\* The same line in the tester with the static form.
StaticTestResultsLabel(res) ==
  IF ~JsTruthy(res) THEN ""
  ELSE IF JsTruthy(Prop(res, "hit")) THEN "Rule Triggered"
  ELSE "Rule Passed"

\* C21 as stated: RuleTester reports "Rule Triggered" exactly when the
\* testRule response has hit = true, and "Rule Passed" exactly when it has
\* hit = false.
C21_Original ==
  JsTruthy(testResult) =>
    /\ TestResultsLabel(testResult) = "Rule Triggered"
         <=> Prop(testResult, "hit") = Bool(TRUE)
    /\ TestResultsLabel(testResult) = "Rule Passed"
         <=> Prop(testResult, "hit") = Bool(FALSE)

\* C26 as stated: in RuleTester, whenever a test result is displayed it is
\* the result of testing the currently selected rule: selecting a rule
\* clears the previous result, and a response to a test started for a
\* previously selected rule is never displayed under another rule.
C26_Original ==
  JsTruthy(testResult) =>
    /\ ret.op = "testRule"
    /\ ret.out = testResult
    /\ ret.id = selectedRule.id

(***************************************************************************)
(* Claims about the edits of the observation (SpecEdits).                  *)
(***************************************************************************)
\* The step leaves every field of the observation but fieldName as it was.
OtherFieldsKept(fieldName) ==
  /\ observation'.k = observation.k
  /\ \A j \in 1..Len(observation.k) :
       observation.k[j] # fieldName => observation'.v[j] = observation.v[j]

\* The step is an update of key itemField of item index, and of nothing else.
UpdateIsLocal(fieldName, index, itemField, value) ==
  LET old == Prop(observation, fieldName).a
      new == Prop(observation', fieldName).a
  IN /\ OtherFieldsKept(fieldName)
     /\ Len(new) = Len(old)
     /\ \A j \in 1..Len(old) : j - 1 # index => new[j] = old[j]
     /\ index < Len(old) =>
          /\ Prop(new[index + 1], itemField) = value
          /\ \A key \in {old[index + 1].k[j] : j \in 1..Len(old[index + 1].k)}
                        \cup {new[index + 1].k[j] : j \in 1..Len(new[index + 1].k)} :
               key # itemField =>
                 Prop(new[index + 1], key) = Prop(old[index + 1], key)
     /\ index >= Len(old) => observation' = observation

\* The step removes item index, and nothing else.
RemoveIsLocal(fieldName, index) ==
  LET old == Prop(observation, fieldName).a
      new == Prop(observation', fieldName).a
  IN /\ OtherFieldsKept(fieldName)
     /\ index < Len(old) =>
          /\ Len(new) = Len(old) - 1
          /\ \A j \in 1..Len(new) :
               new[j] = IF j - 1 < index THEN old[j] ELSE old[j + 1]
     /\ index >= Len(old) => observation' = observation

Whitespace == " "

RECURSIVE SkipWhitespace(_, _)
SkipWhitespace(s, i) ==
  IF i <= Len(s) /\ IsIn(SubSeq(s, i, i), Whitespace)
  THEN SkipWhitespace(s, i + 1) ELSE i

RECURSIVE LastNonWhitespace(_, _)
LastNonWhitespace(s, i) ==
  IF i >= 1 /\ IsIn(SubSeq(s, i, i), Whitespace)
  THEN LastNonWhitespace(s, i - 1) ELSE i

\* s.trim()
Trim(s) ==
  LET first == SkipWhitespace(s, 1)
      last == LastNonWhitespace(s, Len(s))
  IN IF first > last THEN "" ELSE SubSeq(s, first, last)

\* A parse that stopped at place next with the value, or that failed.
Parsed(value, next) == [ok |-> TRUE, value |-> value, next |-> next]
SyntaxError == [ok |-> FALSE]

\* The place of the first c at or after i; past the end when there is none.
RECURSIVE PlaceOf(_, _, _)
PlaceOf(s, c, i) ==
  IF i > Len(s) \/ SubSeq(s, i, i) = c THEN i ELSE PlaceOf(s, c, i + 1)

\* The place after the digits that start at i.
RECURSIVE AfterDigits(_, _)
AfterDigits(s, i) ==
  IF i <= Len(s) /\ IsIn(SubSeq(s, i, i), Digits) THEN AfterDigits(s, i + 1) ELSE i

\* The number the digits spell.
RECURSIVE DigitsValue(_)
DigitsValue(s) ==
  IF s = "" THEN 0
  ELSE 10 * DigitsValue(SubSeq(s, 1, Len(s) - 1))
         + PlaceIn(SubSeq(s, Len(s), Len(s)), Digits) - 1

StartsAt(s, i, word) ==
  i + Len(word) - 1 <= Len(s) /\ SubSeq(s, i, i + Len(word) - 1) = word

ParseString(s, i) ==
  LET close == PlaceOf(s, "\"", i + 1)
  IN IF close > Len(s) THEN SyntaxError
     ELSE Parsed(FromText(IF close = i + 1 THEN "" ELSE SubSeq(s, i + 1, close - 1)),
                 close + 1)

ParseNumber(s, i) ==
  LET first == IF StartsAt(s, i, "-") THEN i + 1 ELSE i
      next == AfterDigits(s, first)
  IN IF next = first THEN SyntaxError
     ELSE LET n == DigitsValue(SubSeq(s, first, next - 1))
          IN Parsed(Num(IF first = i THEN n ELSE 0 - n), next)

\* A value that starts at i, after whitespace; the elements of an array
\* after its bracket or a comma; the members of an object likewise.
RECURSIVE ParseValue(_, _)
RECURSIVE ParseElements(_, _, _)
RECURSIVE ParseMembers(_, _, _, _)
ParseValue(s, at) ==
  LET i == SkipWhitespace(s, at)
      c == IF i > Len(s) THEN "" ELSE SubSeq(s, i, i)
  IN IF c = "{"
     THEN LET j == SkipWhitespace(s, i + 1)
          IN IF StartsAt(s, j, "}") THEN Parsed(Map(<<>>, <<>>), j + 1)
             ELSE ParseMembers(s, j, <<>>, <<>>)
     ELSE IF c = "["
     THEN LET j == SkipWhitespace(s, i + 1)
          IN IF StartsAt(s, j, "]") THEN Parsed(Arr(<<>>), j + 1)
             ELSE ParseElements(s, j, <<>>)
     ELSE IF c = "\"" THEN ParseString(s, i)
     ELSE IF StartsAt(s, i, "true") THEN Parsed(Bool(TRUE), i + 4)
     ELSE IF StartsAt(s, i, "false") THEN Parsed(Bool(FALSE), i + 5)
     ELSE IF StartsAt(s, i, "null") THEN Parsed(Null, i + 4)
     ELSE ParseNumber(s, i)

ParseElements(s, at, items) ==
  LET item == ParseValue(s, at)
  IN IF ~item.ok THEN SyntaxError
     ELSE LET j == SkipWhitespace(s, item.next)
          IN IF StartsAt(s, j, "]") THEN Parsed(Arr(Append(items, item.value)), j + 1)
             ELSE IF StartsAt(s, j, ",")
             THEN ParseElements(s, j + 1, Append(items, item.value))
             ELSE SyntaxError

ParseMembers(s, at, keys, values) ==
  LET i == SkipWhitespace(s, at)
      key == IF StartsAt(s, i, "\"") THEN ParseString(s, i) ELSE SyntaxError
  IN IF ~key.ok THEN SyntaxError
     ELSE LET colon == SkipWhitespace(s, key.next)
          IN IF ~StartsAt(s, colon, ":") THEN SyntaxError
             ELSE LET member == ParseValue(s, colon + 1)
                  IN IF ~member.ok THEN SyntaxError
                     ELSE LET j == SkipWhitespace(s, member.next)
                              object == SetProp(Map(keys, values),
                                                Text(key.value.s), member.value)
                          IN IF StartsAt(s, j, "}") THEN Parsed(object, j + 1)
                             ELSE IF StartsAt(s, j, ",")
                             THEN ParseMembers(s, j + 1, object.k, object.v)
                             ELSE SyntaxError

\* JSON.parse(text): the value, or the SyntaxError it throws.
JsonParse(text) ==
  LET parsed == ParseValue(text, 1)
  IN IF parsed.ok /\ SkipWhitespace(text, parsed.next) > Len(text)
     THEN Returned(parsed.value) ELSE Thrown("SyntaxError")

(***************************************************************************)
(* The rule editor (RuleEditor), opened to create a rule: its form data,   *)
(* the edits of the form and handleSubmit. onSave is the rules manager's   *)
(* handleSaveRule, which takes over from there: saved is the argument of   *)
(* the onSave call, and the editor is followed up to that call. A date     *)
(* that is not set (retired_date undefined) is the empty string; the logic *)
(* and the params are objects until their text areas are typed in, and     *)
(* strings from then on.                                                   *)
(***************************************************************************)
MaxMitigations == 2

\* The form data of a new rule; the effective date is the day of creation.
NewFormData ==
  [name |-> "", category |-> "general", effective_date |-> SubSeq(Today, 1, 10),
   logic |-> Map(<<>>, <<>>), params |-> Map(<<>>, <<>>), explanation |-> "",
   mitigations |-> [full |-> <<"">>, bridge |-> <<"">>], retired_date |-> ""]

\* What is typed into the inputs of the form.
TypedNames == {"Roof rule"}
TypedExplanations == {" ", "Roof at risk"}
TypedEffectiveDates == {"2024-01-01"}
TypedRetiredDates == {"", "2024-06-01"}
TypedLogics == {"{\"==\": [{\"var\": \"roof_type\"}, \"Class B\"]}", "{\"var\": }"}
TypedParams == {"{\"base_ft\": 30,}"}
TypedMitigations(type) ==
  IF type = "full" THEN {" ", "Replace the roof"} ELSE {"Apply window film"}

InitEditor ==
  /\ NoForm
  /\ observation = Map(<<>>, <<>>)
  /\ rules = <<>>
  /\ ret = NoCall
  /\ currentView = "rules"
  /\ userRole = "applied-science"
  /\ result = Null
  /\ loading = FALSE
  /\ calls = <<>>
  /\ selectedRule = Null
  /\ testResult = Null
  /\ editingRule = Null
  /\ isCreating = TRUE
  /\ formData = NewFormData
  /\ saved = <<>>
  /\ stored = <<>>

\* What no action of the editor changes.
editorFrame ==
  <<observation, rules, ret, asOfDate, activeRules, formFields, requests,
    currentView, userRole, result, loading, calls, selectedRule, testResult,
    editingRule, isCreating, stored>>

\* handleInputChange(field, value) of the inputs of the form.
HandleInputChange(field, value) ==
  /\ saved = <<>>
  /\ \/ field = "name" /\ value \in TypedNames
     \/ field = "explanation" /\ value \in TypedExplanations
     \/ field = "effective_date" /\ value \in TypedEffectiveDates
     \/ field = "retired_date" /\ value \in TypedRetiredDates
  /\ formData' = [formData EXCEPT ![field] = value]
  /\ UNCHANGED <<error, saved>>
  /\ UNCHANGED editorFrame

\* handleInputChange of the logic and the params text areas: the text typed.
HandleTextChange(field, text) ==
  /\ saved = <<>>
  /\ \/ field = "logic" /\ text \in TypedLogics
     \/ field = "params" /\ text \in TypedParams
  /\ formData' = [formData EXCEPT ![field] = FromText(text)]
  /\ UNCHANGED <<error, saved>>
  /\ UNCHANGED editorFrame

\* handleMitigationChange(type, index, value); the first index is 0.
HandleMitigationChange(type, index, value) ==
  /\ saved = <<>>
  /\ index < Len(formData.mitigations[type])
  /\ value \in TypedMitigations(type)
  /\ formData' = [formData EXCEPT !.mitigations[type][index + 1] = value]
  /\ UNCHANGED <<error, saved>>
  /\ UNCHANGED editorFrame

\* addMitigation(type)
AddMitigation(type) ==
  /\ saved = <<>>
  /\ Len(formData.mitigations[type]) < MaxMitigations
  /\ formData' = [formData EXCEPT !.mitigations[type] = Append(@, "")]
  /\ UNCHANGED <<error, saved>>
  /\ UNCHANGED editorFrame

\* removeMitigation(type, index); the button is there when the list has
\* more than one entry.
RemoveMitigation(type, index) ==
  /\ saved = <<>>
  /\ Len(formData.mitigations[type]) > 1
  /\ index < Len(formData.mitigations[type])
  /\ formData' = [formData EXCEPT !.mitigations[type] =
                    [j \in 1..(Len(@) - 1) |-> IF j - 1 < index THEN @[j] ELSE @[j + 1]]]
  /\ UNCHANGED <<error, saved>>
  /\ UNCHANGED editorFrame

\* typeof value === 'string' ? JSON.parse(value) : value
ParsedField(value) ==
  IF value.t = "str" THEN JsonParse(Text(value.s)) ELSE Returned(value)

\* list.filter((m) => m.trim())
NonBlank(list) == SelectSeq(list, LAMBDA m : Trim(m) # "")

\* handleSubmit that tests the name and the explanation as typed.
SubmitOutcomeUntrimmed(data) ==
  IF data.name = "" THEN [call |-> "onError", message |-> "Rule name is required"]
  ELSE IF data.explanation = ""
  THEN [call |-> "onError", message |-> "Rule explanation is required"]
  ELSE IF ParsedField(data.logic).threw \/ ParsedField(data.params).threw
  THEN [call |-> "onError", message |-> "Invalid JSON in logic or params fields"]
  ELSE [call |-> "onSave",
        data |-> [data EXCEPT !.logic = ParsedField(data.logic).value,
                              !.params = ParsedField(data.params).value,
                              !.mitigations = [full |-> NonBlank(data.mitigations.full),
                                               bridge |-> NonBlank(data.mitigations.bridge)]]]

\* handleSubmit: the call it makes, onError with a message or onSave with
\* the processed data.
SubmitOutcome(data) ==
  IF Trim(data.name) = "" THEN [call |-> "onError", message |-> "Rule name is required"]
  ELSE IF Trim(data.explanation) = ""
  THEN [call |-> "onError", message |-> "Rule explanation is required"]
  ELSE IF ParsedField(data.logic).threw \/ ParsedField(data.params).threw
  THEN [call |-> "onError", message |-> "Invalid JSON in logic or params fields"]
  ELSE [call |-> "onSave",
        data |-> [data EXCEPT !.logic = ParsedField(data.logic).value,
                              !.params = ParsedField(data.params).value,
                              !.mitigations = [full |-> NonBlank(data.mitigations.full),
                                               bridge |-> NonBlank(data.mitigations.bridge)]]]

\* The form is submitted.
HandleSubmit ==
  /\ saved = <<>>
  /\ LET outcome == SubmitOutcome(formData)
     IN IF outcome.call = "onSave"
        THEN saved' = <<outcome.data>> /\ UNCHANGED error
        ELSE error' = outcome.message /\ UNCHANGED saved
  /\ UNCHANGED formData
  /\ UNCHANGED editorFrame

NextEditor ==
  \/ \E field \in {"name", "explanation", "effective_date", "retired_date"} :
       \E value \in TypedNames \cup TypedExplanations \cup TypedEffectiveDates
                      \cup TypedRetiredDates :
         HandleInputChange(field, value)
  \/ \E field \in {"logic", "params"} : \E text \in TypedLogics \cup TypedParams :
       HandleTextChange(field, text)
  \/ \E type \in {"full", "bridge"} : \E index \in 0..(MaxMitigations - 1) :
       \E value \in TypedMitigations("full") \cup TypedMitigations("bridge") :
         HandleMitigationChange(type, index, value)
  \/ \E type \in {"full", "bridge"} : AddMitigation(type)
  \/ \E type \in {"full", "bridge"} : \E index \in 0..(MaxMitigations - 1) :
       RemoveMitigation(type, index)
  \/ HandleSubmit

SpecEditor == InitEditor /\ [][NextEditor]_vars

(***************************************************************************)
(* Claims about the rule editor (SpecEditor).                              *)
(***************************************************************************)
\* C22 as stated: every rule that RuleEditor hands to onSave with a
\* retired_date present satisfies retired_date > effective_date, after any
\* sequence of edits to the two date fields.
C22_Original ==
  \A n \in 1..Len(saved) :
    saved[n].retired_date # "" =>
      DateBefore(saved[n].effective_date, saved[n].retired_date)

\* The text has a character that is no whitespace.
HasVisibleCharacter(text) ==
  \E i \in 1..Len(text) : ~IsIn(SubSeq(text, i, i), Whitespace)

\* The field is an object, or a text that parses as JSON.
ObjectOrJson(value) == value.t = "str" => ~JsonParse(Text(value.s)).threw

ErrorMessages ==
  {"Rule name is required", "Rule explanation is required",
   "Invalid JSON in logic or params fields"}

\* C28: RuleEditor.handleSubmit calls onSave only when name and explanation
\* are non-blank after trimming and the logic and params texts parse as
\* JSON, and the mitigations it passes contain no blank entry; in every
\* rejected case onError is called, onSave is not, and the form data is
\* unchanged.
C28_SubmitValidates ==
  [][HandleSubmit =>
       IF /\ HasVisibleCharacter(formData.name)
          /\ HasVisibleCharacter(formData.explanation)
          /\ ObjectOrJson(formData.logic)
          /\ ObjectOrJson(formData.params)
       THEN /\ Len(saved') = 1
            /\ \A type \in {"full", "bridge"} :
                 \A j \in 1..Len(saved'[1].mitigations[type]) :
                   HasVisibleCharacter(saved'[1].mitigations[type][j])
            /\ saved'[1].logic.t # "str"
            /\ saved'[1].params.t # "str"
       ELSE /\ error' \in ErrorMessages
            /\ saved' = saved
            /\ formData' = formData]_vars

\* onSave was called for a form whose logic was typed and whose mitigations
\* had blank entries, and the blank entries were left out.
C28_Witness ==
  /\ Len(saved) = 1
  /\ formData.logic.t = "str"
  /\ formData.mitigations.full = <<" ", "Replace the roof">>
  /\ saved[1].mitigations = [full |-> <<"Replace the roof">>, bridge |-> <<>>]

(***************************************************************************)
(* The array item structure of the rule tester (RuleTester): the same      *)
(* functions as the observation form's, over the selected rule.            *)
(***************************************************************************)
\* extractArrayFieldOptions of RuleTester: the parameters of the selected
\* rule.
TesterExtractArrayFieldOptions(rule, arrayFieldName, itemKey) ==
  IF rule = Null THEN Returned(<<>>)
  ELSE IF RuleThrows(rule, itemKey) THEN Thrown("TypeError")
  ELSE Returned(SetAddAll(<<>>, IF JsTruthy(rule.params)
                                THEN ParamsOptionsFrom(rule.params, itemKey, 1)
                                ELSE <<>>))

TesterItemStructure(rule, fieldName, sampleItem, key) ==
  LET value == MapGet(sampleItem, key)
  IN IF value.t = "num" THEN [key |-> key, type |-> "number", options |-> Undefined]
     ELSE IF Includes(ToLowerCase(key), "type")
     THEN [key |-> key, type |-> "select",
           options |->
             Arr(TesterExtractArrayFieldOptions(rule, fieldName, key).value)]
     ELSE [key |-> key, type |-> "text", options |-> Undefined]

\* getArrayItemStructure of RuleTester.
TesterGetArrayItemStructure(rule, fields, fieldName) ==
  LET sampleItem == SampleItem(FindField(fields, fieldName))
  IN IF sampleItem.t # "map"
     THEN Returned(<<[key |-> "value", type |-> "text", options |-> Undefined]>>)
     ELSE IF \E i \in 1..Len(sampleItem.k) :
               /\ AsksOptions(sampleItem, sampleItem.k[i])
               /\ RuleThrows(rule, sampleItem.k[i])
     THEN Thrown("TypeError")
     ELSE Returned([i \in 1..Len(sampleItem.k) |->
                      TesterItemStructure(rule, fieldName, sampleItem,
                                          sampleItem.k[i])])

\* The tester with the one rule of the list selected is asked for the
\* structure of the items of vegetation.
CallTesterGetArrayItemStructure ==
  /\ ret = NoCall
  /\ Len(rules) = 1
  /\ ret' = [op |-> "RuleTester.getArrayItemStructure",
             out |-> TesterGetArrayItemStructure(
                       rules[1], GenerateFormFields(<<rules[1]>>), "vegetation")]
  /\ UNCHANGED <<observation, rules>>
  /\ UNCHANGED formVars
  /\ UNCHANGED uiVars

\* The calls of the form schema, and the tester's.
NextTesterSchema ==
  \/ NextSchema
  \/ CallTesterGetArrayItemStructure

SpecTesterSchema == InitSchema /\ [][NextTesterSchema]_vars

\* C23 as stated: for a single selected rule r, the array-item structure
\* (item keys, their types and their options) that RuleTester computes for
\* an array field equals the one ObservationEvaluator computes for the same
\* field with activeRules = [r].
C23_Original ==
  ret.op = "RuleTester.getArrayItemStructure" =>
    ret.out = GetArrayItemStructure(rules, GenerateFormFields(rules), "vegetation")

\* C24 as stated: for every rule list and every field produced by
\* generateFormFields that has a non-empty options list, the field's
\* defaultValue is one of its options.
C24_Original ==
  ret.op = "generateFormFields" =>
    \A j \in 1..Len(ret.out) :
      LET field == ret.out[j]
      IN (field.options.t = "arr" /\ Len(field.options.a) > 0) =>
           \E n \in 1..Len(field.options.a) : field.options.a[n] = field.defaultValue

(***************************************************************************)
(* The observation form with its submit button (SpecEvaluation): the form  *)
(* of SpecForm, the boolean selects the user changes, and                  *)
(* evaluateObservation, answered by the rule source with the rules active  *)
(* at the call's as-of instant.                                            *)
(***************************************************************************)
evaluationFrame ==
  <<currentView, userRole, selectedRule, testResult, editingRule, isCreating,
    formData, saved, stored>>

\* A boolean select of the form changes.
EvaluatorFieldChange(f, value) ==
  /\ formFields[f].type = "boolean"
  /\ value \in InputValues("boolean")
  /\ Prop(observation, formFields[f].name) # value
  /\ observation' = HandleFieldChange(observation, formFields[f].name, value)
  /\ UNCHANGED <<rules, ret, result, loading, calls>>
  /\ UNCHANGED formVars
  /\ UNCHANGED evaluationFrame

\* The submit button, enabled when nothing is loading and the form has fields.
EvaluatorHandleSubmit ==
  /\ ~loading
  /\ Len(formFields) > 0
  /\ loading' = TRUE
  /\ calls' = Append(calls, [op |-> "evaluateObservation",
                             observation |-> observation, asOf |-> asOfDate])
  /\ UNCHANGED <<observation, rules, ret, result>>
  /\ UNCHANGED formVars
  /\ UNCHANGED evaluationFrame

\* evaluateObservation is answered: the result is stored and the error
\* cleared, or the failure of the evaluation is reported; finally loading
\* is reset.
EvaluateSettles(n) ==
  /\ calls[n].op = "evaluateObservation"
  /\ LET out == EvaluateObservation(calls[n].observation,
                                    RulesAsOf(rules, calls[n].asOf))
     IN IF out.ok
        THEN /\ result' = [t |-> "result", matched |-> out.matched,
                           vulnerabilities |-> out.vulnerabilities]
             /\ error' = ""
        ELSE /\ error' = HttpError
             /\ UNCHANGED result
  /\ loading' = FALSE
  /\ calls' = Without(calls, n)
  /\ UNCHANGED <<observation, rules, ret, asOfDate, activeRules, formFields, requests>>
  /\ UNCHANGED evaluationFrame

\* The request fails before it is answered.
EvaluateRejects(n) ==
  /\ calls[n].op = "evaluateObservation"
  /\ error' = "Failed to fetch"
  /\ loading' = FALSE
  /\ calls' = Without(calls, n)
  /\ UNCHANGED <<observation, rules, ret, result, asOfDate, activeRules,
                 formFields, requests>>
  /\ UNCHANGED evaluationFrame

NextEvaluation ==
  \/ \E date \in AsOfDates : SetAsOfDate(date)
  \/ \E n \in 1..Len(requests) : GetRulesResolves(n)
  \/ \E n \in 1..Len(requests) : GetRulesRejects(n)
  \/ \E f \in 1..Len(formFields), value \in InputValues("boolean") :
       EvaluatorFieldChange(f, value)
  \/ EvaluatorHandleSubmit
  \/ \E n \in 1..Len(calls) : EvaluateSettles(n)
  \/ \E n \in 1..Len(calls) : EvaluateRejects(n)

SpecEvaluation == InitForm /\ [][NextEvaluation]_vars

\* C25 as stated: in every displayed state of the observation form,
\* result.matched <= activeRules.length, so the "Requirements Met" count
\* activeRules.length - result.matched is never negative, given that every
\* response reports at most as many matches as rules active at its as-of
\* instant.
C25_Original ==
  result # Null => result.matched <= Len(activeRules)

(***************************************************************************)
(* The rules manager (RulesManager): the rule list fetched for the as-of   *)
(* date, the loading flag, and the delete and save handlers, each of which *)
(* fetches the list again after its own request. requests holds the        *)
(* getRules calls made so far, calls the delete and save requests in       *)
(* flight; every handler keeps the asOfDate of the render it was created   *)
(* in.                                                                     *)
(***************************************************************************)
managerFrame ==
  <<observation, ret, activeRules, formFields, currentView, userRole, result,
    selectedRule, testResult, formData, saved>>

\* The rule data the editor hands to onSave.
ManagerRuleData == {Dated(GlazingRule, "2024-01-01", "")}

\* The manager after mounting: the effect has called loadRules for ''.
InitManager ==
  /\ observation = Map(<<>>, <<>>)
  /\ ret = NoCall
  /\ rules = <<>>
  /\ asOfDate = ""
  /\ activeRules = <<>>
  /\ formFields = <<>>
  /\ error = ""
  /\ currentView = "rules"
  /\ userRole = "applied-science"
  /\ result = Null
  /\ loading = TRUE
  /\ requests = <<[asOf |-> "", state |-> "pending", from |-> "effect"]>>
  /\ calls = <<>>
  /\ selectedRule = Null
  /\ testResult = Null
  /\ editingRule = Null
  /\ isCreating = FALSE
  /\ formData = Null
  /\ saved = <<>>
  /\ stored = TesterRules

\* The editor is rendered in place of the list.
EditorShown == isCreating \/ editingRule # Null

\* The requests made so far, the rule-list fetches included.
RequestsMade == Len(requests) + Len(calls)

\* loadRules up to its await: setLoading(true) and getRules for the date.
LoadRulesCalls(asOf, from) ==
  /\ loading' = TRUE
  /\ requests' = Append(requests, [asOf |-> asOf, state |-> "pending", from |-> from])

\* Some rule-list fetch is in flight.
FetchInFlight == \E n \in 1..Len(requests) : requests[n].state = "pending"

\* The date input or the Clear button: the effect on asOfDate runs loadRules.
ManagerSetAsOfDate(date) ==
  /\ ~EditorShown
  /\ date # asOfDate
  /\ RequestsMade < MaxFetches
  /\ asOfDate' = date
  /\ LoadRulesCalls(date, "effect")
  /\ UNCHANGED <<rules, error, calls, editingRule, isCreating, stored>>
  /\ UNCHANGED managerFrame

\* getRules settles and loadRules continues: the list is stored and the
\* error cleared, or the failure reported; finally setLoading(false). A
\* handler that awaited loadRules then clears the error.
ManagerLoadRulesSettles(n, ok) ==
  /\ requests[n].state = "pending"
  /\ rules' = IF ok THEN RulesAsOf(stored, requests[n].asOf) ELSE rules
  /\ error' = IF ok \/ requests[n].from # "effect" THEN "" ELSE HttpError
  /\ loading' = FALSE
  /\ requests' = [requests EXCEPT ![n].state = IF ok THEN "fulfilled" ELSE "rejected"]
  /\ UNCHANGED <<asOfDate, calls, editingRule, isCreating, stored>>
  /\ UNCHANGED managerFrame

HandleCreateRule ==
  /\ ~EditorShown
  /\ ~isCreating
  /\ isCreating' = TRUE
  /\ editingRule' = Null
  /\ UNCHANGED <<rules, asOfDate, error, loading, requests, calls, stored>>
  /\ UNCHANGED managerFrame

\* The Edit button of a listed rule; the list is rendered when not loading.
HandleEditRule(i) ==
  /\ ~EditorShown
  /\ ~loading
  /\ editingRule' = rules[i]
  /\ isCreating' = FALSE
  /\ UNCHANGED <<rules, asOfDate, error, loading, requests, calls, stored>>
  /\ UNCHANGED managerFrame

HandleCancel ==
  /\ EditorShown
  /\ editingRule' = Null
  /\ isCreating' = FALSE
  /\ UNCHANGED <<rules, asOfDate, error, loading, requests, calls, stored>>
  /\ UNCHANGED managerFrame

\* The Delete button of a listed rule, confirmed: deleteRule is called.
HandleDeleteRule(i) ==
  /\ ~EditorShown
  /\ ~loading
  /\ RequestsMade < MaxFetches
  /\ calls' = Append(calls, [op |-> "deleteRule", id |-> rules[i].id, asOf |-> asOfDate])
  /\ UNCHANGED <<rules, asOfDate, error, loading, requests, editingRule,
                 isCreating, stored>>
  /\ UNCHANGED managerFrame

\* The editor's onSave: updateRule for a rule being edited, else createRule.
HandleSaveRule(ruleData) ==
  /\ EditorShown
  /\ RequestsMade < MaxFetches
  /\ calls' = Append(calls,
                IF editingRule # Null
                THEN [op |-> "updateRule", id |-> editingRule.id,
                      rule |-> ruleData, asOf |-> asOfDate]
                ELSE [op |-> "createRule", id |-> 0,
                      rule |-> ruleData, asOf |-> asOfDate])
  /\ UNCHANGED <<rules, asOfDate, error, loading, requests, editingRule,
                 isCreating, stored>>
  /\ UNCHANGED managerFrame

\* The rule source holds a rule of this id.
Holds(store, id) == \E n \in 1..Len(store) : store[n].id = id

\* The first id above the ids of the rules held.
RECURSIVE FreshId(_, _)
FreshId(store, id) == IF Holds(store, id) THEN FreshId(store, id + 1) ELSE id

\* The rule source after the request is carried out.
Carried(store, call) ==
  IF call.op = "deleteRule"
  THEN SelectSeq(store, LAMBDA rule : rule.id # call.id)
  ELSE IF call.op = "updateRule"
  THEN [n \in 1..Len(store) |->
          IF store[n].id = call.id THEN Identified(call.rule, call.id) ELSE store[n]]
  ELSE Append(store, Identified(call.rule, FreshId(store, 1)))

\* A delete request resolves: the handler awaits loadRules.
DeleteResolves(n) ==
  /\ calls[n].op = "deleteRule"
  /\ Holds(stored, calls[n].id)
  /\ stored' = Carried(stored, calls[n])
  /\ calls' = Without(calls, n)
  /\ LoadRulesCalls(calls[n].asOf, "delete")
  /\ UNCHANGED <<rules, asOfDate, error, editingRule, isCreating>>
  /\ UNCHANGED managerFrame

\* A save request resolves: the editor is closed, the handler awaits
\* loadRules.
SaveResolves(n) ==
  /\ calls[n].op \in {"updateRule", "createRule"}
  /\ calls[n].op = "updateRule" => Holds(stored, calls[n].id)
  /\ stored' = Carried(stored, calls[n])
  /\ calls' = Without(calls, n)
  /\ editingRule' = Null
  /\ isCreating' = FALSE
  /\ LoadRulesCalls(calls[n].asOf, "save")
  /\ UNCHANGED <<rules, asOfDate, error>>
  /\ UNCHANGED managerFrame

\* A delete or save request rejects: the catch branch reports the failure.
RequestRejects(n) ==
  /\ calls[n].op \in {"deleteRule", "updateRule", "createRule"}
  /\ error' = HttpError
  /\ calls' = Without(calls, n)
  /\ UNCHANGED <<rules, asOfDate, loading, requests, editingRule, isCreating, stored>>
  /\ UNCHANGED managerFrame

NextManager ==
  \/ \E date \in AsOfDates : ManagerSetAsOfDate(date)
  \/ \E n \in 1..Len(requests), ok \in BOOLEAN : ManagerLoadRulesSettles(n, ok)
  \/ HandleCreateRule
  \/ \E i \in 1..Len(rules) : HandleEditRule(i)
  \/ HandleCancel
  \/ \E i \in 1..Len(rules) : HandleDeleteRule(i)
  \/ \E ruleData \in ManagerRuleData : HandleSaveRule(ruleData)
  \/ \E n \in 1..Len(calls) : DeleteResolves(n)
  \/ \E n \in 1..Len(calls) : SaveResolves(n)
  \/ \E n \in 1..Len(calls) : RequestRejects(n)

SpecManager == InitManager /\ [][NextManager]_vars

\* C27 as stated: in RulesManager, loading is true whenever at least one
\* rule-list fetch is in flight, and becomes false only when none is, for
\* any interleaving of as-of date changes, deletes and saves.
C27_Original == FetchInFlight => loading

==========================================================================
